---- MODULE Spec2Model ----
(***************************************************************************)
(* Model of biglinux-microphone's PipeWireService: the start/stop/restart  *)
(* controller, the live-update worker with its node-id cache, and the      *)
(* external filter-chain processes they drive.                              *)
(***************************************************************************)
EXTENDS Integers, Sequences, FiniteSets, TLC

\* ------------------------------------------------------------------ bounds
\* Controller threads the UI may have alive at once.
NThreads == 2
\* Filter-chain process instances ever spawned in one run.
MaxProc == 2
\* Live-update requests submitted in one run.
MaxUpdates == 2
\* Setter calls the UI makes in one run of ServiceSpec.
MaxCalls == 1

\* ------------------------------------------------------- program constants
\* start(): "for _ in range(6)" confirmation polls.
PollBudget == 6

Threads == 1..NThreads
Procs == 1..MaxProc
\* Two distinct slider positions: no code on the live-update path looks at the value.
Values == {1, 2}
\* The continuous setters all hand (name, value) to _update_param_live; the
\* name is carried through to pw-cli untouched, so one name stands for them.
Params == {"ai:Strength"}
\* None, as the node-id cache and the resolved id hold it.
None == 0

VARIABLES
    procs,           \* filter-chain process instance -> its life-cycle state
    config_file,     \* the generated source-gtcrn-smart.conf exists
    is_updating,     \* PipeWireService._is_updating
    cached_node_id,  \* PipeWireService._cached_node_id (None or a node id)
    update_queue,    \* PipeWireService._update_queue
    stored,          \* the service's stored value of each continuous parameter
    node_val,        \* instance -> parameter -> value last applied live to its node (0: none)
    pc,              \* controller thread -> position in start()/stop()/_restart()
    job,             \* controller thread -> what it was created to run
    polls,           \* controller thread -> confirmation polls done by its start()
    stop_res,        \* controller thread -> what its stop() returned
    start_res,       \* controller thread -> what its start() returned
    main_pc,         \* GTK main thread's position inside apply_config
    w_pc,            \* worker thread's position in _worker_loop
    w_item,          \* the request the worker is handling
    w_node,          \* node id the worker resolved for it
    w_disc,          \* pw-dump queries run for the request being handled
    w_sent,          \* pw-cli commands issued for the request being handled
    enq_count,       \* requests ever enqueued
    deq_count,       \* requests ever dequeued
    last_sub,        \* parameter -> the last request submitted for it
    last_res,        \* how the last handled request ended
    svc,             \* the service's internal state (self._noise_reduction_strength, ...)
    disk,            \* the AppSettings stored in settings.json
    cfg,             \* the FilterChainConfig last handed to FilterChainGenerator
    graph,           \* the filter graph last generated from it
    profile_service, \* the ProfileService object and its profiles.json
    discovery,       \* a pw-dump of the live graph and what discovery made of it
    task_queue       \* an AsyncTaskQueue, its callers and the tasks it has run

vars == <<procs, config_file, is_updating, cached_node_id, update_queue, stored,
          node_val, pc, job, polls, stop_res, start_res, main_pc,
          w_pc, w_item, w_node, w_disc, w_sent, enq_count, deq_count,
          last_sub, last_res, svc, disk, cfg, graph, profile_service,
          discovery, task_queue>>

env_vars == <<procs, config_file, node_val>>
ctl_vars == <<pc, job, polls, stop_res, start_res>>
worker_vars == <<w_pc, w_item, w_node, w_disc, w_sent, deq_count, last_res>>
setter_vars == <<update_queue, stored, enq_count, last_sub>>
gen_vars == <<svc, disk, cfg, graph>>
\* The objects beside PipeWireService.
side_vars == <<profile_service, discovery, task_queue>>

\* --------------------------------------------------------- the environment
\* A process is found by pgrep from its exec until it has exited.
Alive(s) == s \in {"booting", "up", "term", "dying"}
\* Its source/node is in the graph once loaded, until the process exits.
NodeVisible(s) == s \in {"up", "dying"}
\* kill <pid> sends SIGTERM: the process exits some time later.
Killed(s) == IF s = "up" THEN "dying" ELSE IF s = "booting" THEN "term" ELSE s

NoValues == [p \in Params |-> 0]

\* The node id PipeWire gives the node of instance i.
NodeIdOf(i) == i

VisibleNodes == {NodeIdOf(i) : i \in {j \in Procs : NodeVisible(procs[j])}}

is_enabled ==
    \/ \E i \in Procs : Alive(procs[i])          \* pgrep finds the process
    \/ \E i \in Procs : NodeVisible(procs[i])    \* pactl lists the source
    \/ config_file                                \* fallback: config file exists

\* ------------------------------------------------- external process events
\* The spawned process finishes loading the graph: its node and source appear.
ProcReady(i) ==
    /\ procs[i] = "booting"
    /\ procs' = [procs EXCEPT ![i] = "up"]
    /\ UNCHANGED <<config_file, node_val, is_updating, cached_node_id, ctl_vars,
                   main_pc, worker_vars, setter_vars>>
    /\ UNCHANGED gen_vars
    /\ UNCHANGED side_vars

\* A process that failed to come up, or was sent SIGTERM, exits.
ProcExit(i) ==
    /\ procs[i] \in {"booting", "term", "dying"}
    /\ procs' = [procs EXCEPT ![i] = "dead"]
    /\ node_val' = [node_val EXCEPT ![i] = NoValues]
    /\ UNCHANGED <<config_file, is_updating, cached_node_id, ctl_vars,
                   main_pc, worker_vars, setter_vars>>
    /\ UNCHANGED gen_vars
    /\ UNCHANGED side_vars

\* cli.py "stop", run beside the application: remove_config(), kill_filter_processes().
CliStop ==
    /\ config_file \/ \E i \in Procs : Alive(procs[i])
    /\ config_file' = FALSE
    /\ procs' = [i \in Procs |-> Killed(procs[i])]
    /\ UNCHANGED <<node_val, is_updating, cached_node_id, ctl_vars,
                   main_pc, worker_vars, setter_vars>>
    /\ UNCHANGED gen_vars
    /\ UNCHANGED side_vars

\* ------------------------------------------------------ controller threads
Used == Cardinality({i \in Procs : procs[i] # "none"})

\* Calls to start() that have not reached their spawn yet.
Pending ==
    Cardinality({t \in Threads :
        /\ job[t] \in {"start", "restart"}
        /\ pc[t] \notin {"start_poll", "complete", "done"}})
    + (IF main_pc = "ac_check" THEN 1 ELSE 0)

SpawnBudget == Used + Pending < MaxProc

\* Where a thread goes when its start() has returned.
AfterStart(t) == IF job[t] = "restart" THEN "complete" ELSE "done"
\* Where a thread goes when its stop() has returned: _restart() sleeps, then start().
AfterStop(t) == IF job[t] = "restart" THEN "start_check" ELSE "done"

\* main_view._start_noise_reduction: a thread running start(settings).
CallStart(t) ==
    /\ pc[t] = "idle"
    /\ SpawnBudget
    /\ job' = [job EXCEPT ![t] = "start"]
    /\ pc' = [pc EXCEPT ![t] = "start_check"]
    /\ UNCHANGED <<env_vars, is_updating, cached_node_id, polls, stop_res, start_res,
                   main_pc, worker_vars, setter_vars>>
    /\ UNCHANGED gen_vars
    /\ UNCHANGED side_vars

\* main_view._stop_noise_reduction: a thread running stop().
CallStop(t) ==
    /\ pc[t] = "idle"
    /\ job' = [job EXCEPT ![t] = "stop"]
    /\ pc' = [pc EXCEPT ![t] = "stop_check"]
    /\ UNCHANGED <<env_vars, is_updating, cached_node_id, polls, stop_res, start_res,
                   main_pc, worker_vars, setter_vars>>
    /\ UNCHANGED gen_vars
    /\ UNCHANGED side_vars

\* start(): "if self._is_updating: return False", a plain read of the flag.
StartCheck(t) ==
    /\ pc[t] = "start_check"
    /\ IF is_updating
       THEN /\ start_res' = [start_res EXCEPT ![t] = "busy"]
            /\ pc' = [pc EXCEPT ![t] = AfterStart(t)]
       ELSE /\ pc' = [pc EXCEPT ![t] = "start_set"]
            /\ UNCHANGED start_res
    /\ UNCHANGED <<env_vars, is_updating, cached_node_id, job, polls, stop_res,
                   main_pc, worker_vars, setter_vars>>
    /\ UNCHANGED gen_vars
    /\ UNCHANGED side_vars

\* start(): "self._is_updating = True", a plain write, no lock held since the read.
StartSet(t) ==
    /\ pc[t] = "start_set"
    /\ is_updating' = TRUE
    /\ pc' = [pc EXCEPT ![t] = "start_kill"]
    /\ UNCHANGED <<env_vars, cached_node_id, job, polls, stop_res, start_res,
                   main_pc, worker_vars, setter_vars>>
    /\ UNCHANGED gen_vars
    /\ UNCHANGED side_vars

\* Mutant of StopFilterChain: the running processes are left alone.
StopFilterChainNoKill(t, from, to) ==
    /\ pc[t] = from
    /\ config_file' = FALSE
    /\ cached_node_id' = None
    /\ pc' = [pc EXCEPT ![t] = to]
    /\ UNCHANGED <<procs, node_val, is_updating, job, polls, stop_res, start_res,
                   main_pc, worker_vars, setter_vars>>
    /\ UNCHANGED gen_vars
    /\ UNCHANGED side_vars

\* _stop_filter_chain(): pgrep and kill every pid found, unlink the config file,
\* invalidate the cache, then sleep 0.2 s.
StopFilterChain(t, from, to) ==
    /\ pc[t] = from
    /\ procs' = [i \in Procs |-> Killed(procs[i])]
    /\ config_file' = FALSE
    /\ cached_node_id' = None
    /\ pc' = [pc EXCEPT ![t] = to]
    /\ UNCHANGED <<node_val, is_updating, job, polls, stop_res, start_res,
                   main_pc, worker_vars, setter_vars>>
    /\ UNCHANGED gen_vars
    /\ UNCHANGED side_vars

\* Mutant of StartReturn: no "finally", the flag stays set.
StartReturnKeepsFlag(t, res) ==
    /\ UNCHANGED is_updating
    /\ start_res' = [start_res EXCEPT ![t] = res]
    /\ pc' = [pc EXCEPT ![t] = AfterStart(t)]

\* start()'s "finally: self._is_updating = False" and its return value.
StartReturn(t, res) ==
    /\ is_updating' = FALSE
    /\ start_res' = [start_res EXCEPT ![t] = res]
    /\ pc' = [pc EXCEPT ![t] = AfterStart(t)]

\* start(): sync_from_settings, mkdir, _ensure_daemon_config, _generate_config,
\* then subprocess.Popen(["/usr/bin/pipewire", "-c", "filter-chain.conf"]) and
\* sleep 0.5 s. A failing write or spawn raises: "except Exception: return False".
StartSpawn(t) ==
    /\ pc[t] = "start_spawn"
    /\ \/ /\ config_file' = TRUE
          /\ \E i \in Procs :
                /\ procs[i] = "none"
                /\ \A j \in Procs : j < i => procs[j] # "none"
                /\ procs' = [procs EXCEPT ![i] = "booting"]
          /\ polls' = [polls EXCEPT ![t] = 0]
          /\ pc' = [pc EXCEPT ![t] = "start_poll"]
          /\ UNCHANGED <<is_updating, start_res>>
       \/ /\ StartReturn(t, "error")
          /\ UNCHANGED <<config_file, procs, polls>>
    /\ UNCHANGED <<node_val, cached_node_id, job, stop_res,
                   main_pc, worker_vars, setter_vars>>
    /\ UNCHANGED gen_vars
    /\ UNCHANGED side_vars

\* start(): one round of "for _ in range(6): sleep(0.5); if self.is_enabled(): ...".
StartPoll(t) ==
    /\ pc[t] = "start_poll"
    /\ IF is_enabled
       THEN /\ cached_node_id' = None
            /\ StartReturn(t, "ok")
            /\ UNCHANGED polls
       ELSE IF polls[t] + 1 = PollBudget
       THEN /\ StartReturn(t, "fail")
            /\ polls' = [polls EXCEPT ![t] = polls[t] + 1]
            /\ UNCHANGED cached_node_id
       ELSE /\ polls' = [polls EXCEPT ![t] = polls[t] + 1]
            /\ UNCHANGED <<is_updating, start_res, pc, cached_node_id>>
    /\ UNCHANGED <<env_vars, job, stop_res, main_pc, worker_vars, setter_vars>>
    /\ UNCHANGED gen_vars
    /\ UNCHANGED side_vars

\* Mutant of StopCheck: stop() goes ahead whatever the flag says.
StopCheckNoGuard(t) ==
    /\ pc[t] = "stop_check"
    /\ pc' = [pc EXCEPT ![t] = "stop_set"]
    /\ UNCHANGED <<env_vars, is_updating, cached_node_id, job, polls, stop_res,
                   start_res, main_pc, worker_vars, setter_vars>>
    /\ UNCHANGED gen_vars
    /\ UNCHANGED side_vars

\* stop(): "if self._is_updating: return False".
StopCheck(t) ==
    /\ pc[t] = "stop_check"
    /\ IF is_updating
       THEN /\ stop_res' = [stop_res EXCEPT ![t] =
                    IF job[t] = "restart" THEN "none" ELSE "busy"]
            /\ pc' = [pc EXCEPT ![t] = AfterStop(t)]
       ELSE /\ pc' = [pc EXCEPT ![t] = "stop_set"]
            /\ UNCHANGED stop_res
    /\ UNCHANGED <<env_vars, is_updating, cached_node_id, job, polls, start_res,
                   main_pc, worker_vars, setter_vars>>
    /\ UNCHANGED gen_vars
    /\ UNCHANGED side_vars

\* stop(): "self._is_updating = True".
StopSet(t) ==
    /\ pc[t] = "stop_set"
    /\ is_updating' = TRUE
    /\ pc' = [pc EXCEPT ![t] = "stop_kill"]
    /\ UNCHANGED <<env_vars, cached_node_id, job, polls, stop_res, start_res,
                   main_pc, worker_vars, setter_vars>>
    /\ UNCHANGED gen_vars
    /\ UNCHANGED side_vars

\* Mutant of StopReturn: stop() returns is_enabled() instead of its negation.
StopReturnReportsEnabled(t) ==
    /\ pc[t] = "stop_ret"
    /\ stop_res' = [stop_res EXCEPT ![t] =
            IF job[t] = "restart" THEN "none"
            ELSE IF is_enabled THEN "ok" ELSE "fail"]
    /\ is_updating' = FALSE
    /\ pc' = [pc EXCEPT ![t] = AfterStop(t)]
    /\ UNCHANGED <<env_vars, cached_node_id, job, polls, start_res,
                   main_pc, worker_vars, setter_vars>>
    /\ UNCHANGED gen_vars
    /\ UNCHANGED side_vars

\* stop(): "return not self.is_enabled()" and "finally: self._is_updating = False".
\* _restart() drops the value: "await self.stop()".
StopReturn(t) ==
    /\ pc[t] = "stop_ret"
    /\ stop_res' = [stop_res EXCEPT ![t] =
            IF job[t] = "restart" THEN "none"
            ELSE IF is_enabled THEN "fail" ELSE "ok"]
    /\ is_updating' = FALSE
    /\ pc' = [pc EXCEPT ![t] = AfterStop(t)]
    /\ UNCHANGED <<env_vars, cached_node_id, job, polls, start_res,
                   main_pc, worker_vars, setter_vars>>
    /\ UNCHANGED gen_vars
    /\ UNCHANGED side_vars

\* _do_restart(): _restart() has returned, whatever its stop() and start()
\* returned; "if on_complete: GLib.idle_add(on_complete)", and the thread ends.
RestartComplete(t) ==
    /\ pc[t] = "complete"
    /\ pc' = [pc EXCEPT ![t] = "idle"]
    /\ job' = [job EXCEPT ![t] = "none"]
    /\ polls' = [polls EXCEPT ![t] = 0]
    /\ start_res' = [start_res EXCEPT ![t] = "none"]
    /\ UNCHANGED <<env_vars, is_updating, cached_node_id, stop_res,
                   main_pc, worker_vars, setter_vars>>
    /\ UNCHANGED gen_vars
    /\ UNCHANGED side_vars

\* The thread's target function returns and the thread ends.
ThreadExit(t) ==
    /\ pc[t] = "done"
    /\ pc' = [pc EXCEPT ![t] = "idle"]
    /\ job' = [job EXCEPT ![t] = "none"]
    /\ polls' = [polls EXCEPT ![t] = 0]
    /\ stop_res' = [stop_res EXCEPT ![t] = "none"]
    /\ start_res' = [start_res EXCEPT ![t] = "none"]
    /\ UNCHANGED <<env_vars, is_updating, cached_node_id, main_pc, worker_vars,
                   setter_vars>>
    /\ UNCHANGED gen_vars
    /\ UNCHANGED side_vars

\* ------------------------------------------------- apply_config (GTK thread)
\* apply_config(): sync_from_settings and _generate_config(settings).
ApplyConfigGenerate ==
    /\ main_pc = "idle"
    /\ SpawnBudget
    /\ config_file' = TRUE
    /\ main_pc' = "ac_check"
    /\ UNCHANGED <<procs, node_val, is_updating, cached_node_id, ctl_vars,
                   worker_vars, setter_vars>>
    /\ UNCHANGED gen_vars
    /\ UNCHANGED side_vars

\* apply_config(): "if self.is_enabled(): self._run_restart_in_thread(on_complete)
\* elif on_complete: GLib.idle_add(on_complete)".
ApplyConfigDispatch ==
    /\ main_pc = "ac_check"
    /\ IF is_enabled
       THEN /\ \E t \in Threads :
                /\ pc[t] = "idle"
                /\ job' = [job EXCEPT ![t] = "restart"]
                /\ pc' = [pc EXCEPT ![t] = "stop_check"]
            /\ main_pc' = "idle"
       ELSE /\ main_pc' = "idle"
            /\ UNCHANGED <<pc, job>>
    /\ UNCHANGED <<env_vars, is_updating, cached_node_id, polls, stop_res, start_res,
                   worker_vars, setter_vars>>
    /\ UNCHANGED gen_vars
    /\ UNCHANGED side_vars

\* ------------------------------------------------------------- the setters
NoItem == [param |-> "", value |-> 0, seq |-> 0]
NoSub == [value |-> 0, inst |-> 0, run |-> 0]
NoRes == [param |-> "", out |-> "none", node |-> 0]

\* The instance a request is aimed at: the one whose node is up, when it is the only one.
CurrentInst ==
    IF Cardinality({i \in Procs : procs[i] = "up"}) = 1
    THEN CHOOSE i \in Procs : procs[i] = "up"
    ELSE 0

\* Mutant of UpdateParamLive: a request is dropped when another is still queued.
UpdateParamLiveSkipBusy(p, v) ==
    /\ update_queue' = IF update_queue = <<>>
                       THEN <<[param |-> p, value |-> v, seq |-> enq_count + 1]>>
                       ELSE update_queue
    /\ enq_count' = enq_count + 1
    /\ last_sub' = [last_sub EXCEPT ![p] =
            [value |-> v, inst |-> CurrentInst,
             run |-> IF CurrentInst # 0 /\ last_sub[p].inst = CurrentInst
                     THEN 2 ELSE 1]]

\* _update_param_live(): self._update_queue.put((param_name, value)).
UpdateParamLive(p, v) ==
    /\ update_queue' = Append(update_queue,
                              [param |-> p, value |-> v, seq |-> enq_count + 1])
    /\ enq_count' = enq_count + 1
    /\ last_sub' = [last_sub EXCEPT ![p] =
            [value |-> v, inst |-> CurrentInst,
             run |-> IF CurrentInst # 0 /\ last_sub[p].inst = CurrentInst
                     THEN 2 ELSE 1]]

\* set_strength / set_gate_threshold: store the value, and when is_enabled()
\* hand it to the worker. lim bounds the requests of one run.
Setter(p, v, lim) ==
    /\ stored' = [stored EXCEPT ![p] = v]
    /\ IF is_enabled
       THEN /\ enq_count < lim
            /\ UpdateParamLive(p, v)
       ELSE /\ stored[p] # v
            /\ UNCHANGED <<update_queue, enq_count, last_sub>>
    /\ UNCHANGED <<env_vars, is_updating, cached_node_id, ctl_vars, main_pc,
                   worker_vars>>
    /\ UNCHANGED gen_vars
    /\ UNCHANGED side_vars

\* -------------------------------------------------------- the worker thread
\* Mutant of WorkerGet: the newest request is taken first.
WorkerGetNewest ==
    /\ w_pc = "wait"
    /\ update_queue # <<>>
    /\ w_item' = update_queue[Len(update_queue)]
    /\ update_queue' = SubSeq(update_queue, 1, Len(update_queue) - 1)
    /\ deq_count' = deq_count + 1
    /\ w_node' = None
    /\ w_disc' = 0
    /\ w_sent' = 0
    /\ w_pc' = "resolve"
    /\ UNCHANGED <<env_vars, is_updating, cached_node_id, ctl_vars, main_pc,
                   stored, enq_count, last_sub, last_res>>
    /\ UNCHANGED gen_vars
    /\ UNCHANGED side_vars

\* _worker_loop(): item = self._update_queue.get().
WorkerGet ==
    /\ w_pc = "wait"
    /\ update_queue # <<>>
    /\ w_item' = Head(update_queue)
    /\ update_queue' = Tail(update_queue)
    /\ deq_count' = deq_count + 1
    /\ w_node' = None
    /\ w_disc' = 0
    /\ w_sent' = 0
    /\ w_pc' = "resolve"
    /\ UNCHANGED <<env_vars, is_updating, cached_node_id, ctl_vars, main_pc,
                   stored, enq_count, last_sub, last_res>>
    /\ UNCHANGED gen_vars
    /\ UNCHANGED side_vars

\* What subprocess.run(["pw-dump"]) and the scan of its output yield: the id of
\* the first matching node, or None (tool failed, timed out, no node matched).
PwDump == VisibleNodes \cup {None}

\* Mutant of WorkerResolve: the cache is not consulted, pw-dump runs every time.
WorkerResolveNoCache ==
    /\ w_pc = "resolve"
    /\ \E id \in PwDump : w_node' = id
    /\ w_disc' = w_disc + 1
    /\ w_pc' = "store"
    /\ UNCHANGED <<env_vars, is_updating, cached_node_id, ctl_vars, main_pc,
                   setter_vars, w_item, w_sent, deq_count, last_res>>
    /\ UNCHANGED gen_vars
    /\ UNCHANGED side_vars

\* _get_filter_chain_node_id(): return the cached id, or run pw-dump.
WorkerResolve ==
    /\ w_pc = "resolve"
    /\ IF cached_node_id # None
       THEN /\ w_node' = cached_node_id
            /\ w_pc' = "send"
            /\ UNCHANGED w_disc
       ELSE /\ \E id \in PwDump : w_node' = id
            /\ w_disc' = w_disc + 1
            /\ w_pc' = "store"
    /\ UNCHANGED <<env_vars, is_updating, cached_node_id, ctl_vars, main_pc,
                   setter_vars, w_item, w_sent, deq_count, last_res>>
    /\ UNCHANGED gen_vars
    /\ UNCHANGED side_vars

\* The worker is done with its request: task_done(), back to get().
WorkerDone(out) ==
    /\ last_res' = [param |-> w_item.param, out |-> out, node |-> w_node]
    /\ w_item' = NoItem
    /\ w_pc' = "wait"

\* Mutant of WorkerStore: the update command is issued even when no node was found.
WorkerStoreSendsAnyway ==
    /\ w_pc = "store"
    /\ cached_node_id' = IF w_node # None THEN w_node ELSE cached_node_id
    /\ w_pc' = "send"
    /\ UNCHANGED <<w_item, last_res>>
    /\ UNCHANGED <<env_vars, is_updating, ctl_vars, main_pc, setter_vars,
                   w_node, w_disc, w_sent, deq_count>>
    /\ UNCHANGED gen_vars
    /\ UNCHANGED side_vars

\* _get_filter_chain_node_id() after pw-dump returned: cache the id found;
\* _perform_live_update(): "if not node_id: return False".
WorkerStore ==
    /\ w_pc = "store"
    /\ IF w_node # None
       THEN /\ cached_node_id' = w_node
            /\ w_pc' = "send"
            /\ UNCHANGED <<w_item, last_res>>
       ELSE /\ WorkerDone("notfound")
            /\ UNCHANGED cached_node_id
    /\ UNCHANGED <<env_vars, is_updating, ctl_vars, main_pc, setter_vars,
                   w_node, w_disc, w_sent, deq_count>>
    /\ UNCHANGED gen_vars
    /\ UNCHANGED side_vars

\* How subprocess.run(["pw-cli", "set-param", node_id, ...]) can end: exit 0
\* needs the node to exist; otherwise a non-zero exit, or an exception (timeout).
PwCli == (IF w_node \in VisibleNodes THEN {"ok"} ELSE {}) \cup {"failed", "exception"}

\* _perform_live_update(): issue the command; a non-zero exit invalidates the cache.
WorkerSend ==
    /\ w_pc = "send"
    /\ w_sent' = w_sent + 1
    /\ \E out \in PwCli :
        /\ WorkerDone(out)
        /\ node_val' = IF out = "ok"
                       THEN [node_val EXCEPT ![w_node][w_item.param] = w_item.value]
                       ELSE node_val
        /\ cached_node_id' = IF out = "failed" THEN None ELSE cached_node_id
    /\ UNCHANGED <<procs, config_file, is_updating, ctl_vars, main_pc, setter_vars,
                   w_node, w_disc, deq_count>>
    /\ UNCHANGED gen_vars
    /\ UNCHANGED side_vars

\* ------------------------------------------- the filter-chain generator
\* Widths and strengths are counted in steps of 0.05 (20 = 1.0), equalizer
\* gains in steps of 0.5 dB, the gate attack in tenths of a millisecond,
\* compressor controls in tenths as "{x:.1f}" prints them, pitch and gain in
\* hundredths as "{x:.2f}" prints them.

\* StereoMode.
MONO == "mono"
DUAL_MONO == "dual_mono"
RADIO == "radio"
VOICE_CHANGER == "voice_changer"
StereoMode == {MONO, DUAL_MONO, RADIO, VOICE_CHANGER}

\* EQ_BAND_TO_MBEQ_INDEX: UI band i (0-based, entry i + 1) -> MBEQ band (0-based).
EQ_BAND_TO_MBEQ_INDEX == <<0, 1, 2, 4, 6, 8, 10, 12, 13, 14>>

\* MBEQ_PARAM_NAMES: the 15 control names of the mbeq plugin.
MBEQ_PARAM_NAMES ==
    <<"50Hz gain (low shelving)", "100Hz gain", "156Hz gain", "220Hz gain",
      "311Hz gain", "440Hz gain", "622Hz gain", "880Hz gain", "1250Hz gain",
      "1750Hz gain", "2500Hz gain", "3500Hz gain", "5000Hz gain", "10000Hz gain",
      "20000Hz gain">>

NoBands == [i \in 1..Len(EQ_BAND_TO_MBEQ_INDEX) |-> 0]

\* FilterChainConfig(): the dataclass defaults.
FilterChainConfig ==
    [noise_reduction_enabled |-> TRUE, noise_reduction_strength |-> 20,
     gate_enabled |-> TRUE,
     gate_control |-> [threshold_db |-> -40, range_db |-> -60, attack_ms |-> 100,
                       hold_ms |-> 300, release_ms |-> 150],
     stereo_mode |-> MONO, stereo_width |-> 14,
     eq_enabled |-> FALSE, eq_bands |-> NoBands]

Max(a, b) == IF a >= b THEN a ELSE b
Min(a, b) == IF a <= b THEN a ELSE b

Port(node, port) == <<node, port>>
Link(src, dst) == [output |-> src, input |-> dst]

\* _generate_ai_node().
GenerateAiNode(c) ==
    [type |-> "ladspa", name |-> "ai", label |-> "gtcrn_mono",
     control |-> [Enable |-> 1, Strength |-> c.noise_reduction_strength]]

\* _generate_gate_node().
GenerateGateNode(c) ==
    [type |-> "ladspa", name |-> "gate", label |-> "gate",
     control |-> c.gate_control]

\* Mutant of MbeqValues: UI band i is written to stage band i, the table is skipped.
RECURSIVE MbeqValuesNoTable(_, _, _)
MbeqValuesNoTable(vals, bands, i) ==
    IF i > Len(bands) THEN vals
    ELSE MbeqValuesNoTable(IF i <= Len(EQ_BAND_TO_MBEQ_INDEX)
                           THEN [vals EXCEPT ![i] = bands[i]]
                           ELSE vals,
                           bands, i + 1)

\* _generate_eq_node(): "for i, band_val in enumerate(c.eq_bands): if i <
\* len(EQ_BAND_TO_MBEQ_INDEX): mbeq_values[EQ_BAND_TO_MBEQ_INDEX[i]] = band_val".
RECURSIVE MbeqValues(_, _, _)
MbeqValues(vals, bands, i) ==
    IF i > Len(bands) THEN vals
    ELSE MbeqValues(IF i <= Len(EQ_BAND_TO_MBEQ_INDEX)
                    THEN [vals EXCEPT ![EQ_BAND_TO_MBEQ_INDEX[i] + 1] = bands[i]]
                    ELSE vals,
                    bands, i + 1)

\* _generate_eq_node(): all 15 bands start at 0.0.
GenerateEqNode(c) ==
    [type |-> "ladspa", name |-> "eq", label |-> "mbeq",
     control |-> MbeqValues([j \in 1..Len(MBEQ_PARAM_NAMES) |-> 0], c.eq_bands, 1)]

CopyNode(n) == [type |-> "builtin", name |-> n, label |-> "copy", control |-> <<>>]

\* _generate_passthrough_config().
GeneratePassthroughConfig ==
    [title |-> "Passthrough (no filters)",
     nodes |-> <<CopyNode("passthrough")>>,
     links |-> <<>>,
     inputs |-> <<Port("passthrough", "In")>>,
     outputs |-> <<Port("passthrough", "Out")>>,
     channels |-> 1,
     position |-> <<>>]

\* Mutant of ActiveNodes: the gate is placed ahead of the noise reduction.
ActiveNodesGateFirst(c) ==
    (IF c.gate_enabled THEN <<GenerateGateNode(c)>> ELSE <<>>)
    \o (IF c.noise_reduction_enabled THEN <<GenerateAiNode(c)>> ELSE <<>>)
    \o (IF c.eq_enabled THEN <<GenerateEqNode(c)>> ELSE <<>>)

\* "active_filters" and "nodes" as _generate_mono_config and
\* _generate_stereo_config build them: ai, then gate, then eq.
ActiveNodes(c) ==
    (IF c.noise_reduction_enabled THEN <<GenerateAiNode(c)>> ELSE <<>>)
    \o (IF c.gate_enabled THEN <<GenerateGateNode(c)>> ELSE <<>>)
    \o (IF c.eq_enabled THEN <<GenerateEqNode(c)>> ELSE <<>>)

ActiveFilters(c) == [k \in 1..Len(ActiveNodes(c)) |-> ActiveNodes(c)[k].name]

\* "for i in range(len(active_filters) - 1): links.append(src:Output -> dst:Input)".
ChainLinks(af) ==
    [k \in 1..(Len(af) - 1) |-> Link(Port(af[k], "Output"), Port(af[k + 1], "Input"))]

\* Mutant of GenerateMonoConfig: no pass-through fallback, an empty graph is emitted.
GenerateMonoConfigNoFallback(c) ==
    [title |-> "Mono output",
     nodes |-> ActiveNodes(c),
     links |-> ChainLinks(ActiveFilters(c)),
     inputs |-> [k \in 1..Min(1, Len(ActiveFilters(c))) |-> Port(ActiveFilters(c)[k], "Input")],
     outputs |-> [k \in 1..Min(1, Len(ActiveFilters(c))) |->
                    Port(ActiveFilters(c)[Len(ActiveFilters(c))], "Output")],
     channels |-> 1,
     position |-> <<"MONO">>]

\* _generate_mono_config().
GenerateMonoConfig(c) ==
    IF ActiveFilters(c) = <<>> THEN GeneratePassthroughConfig
    ELSE [title |-> "Mono output",
          nodes |-> ActiveNodes(c),
          links |-> ChainLinks(ActiveFilters(c)),
          inputs |-> <<Port(ActiveFilters(c)[1], "Input")>>,
          outputs |-> <<Port(ActiveFilters(c)[Len(ActiveFilters(c))], "Output")>>,
          channels |-> 1,
          position |-> <<"MONO">>]

\* The copy_tee / copy_left / copy_right nodes and their two links.
TeeNodes == <<CopyNode("copy_tee"), CopyNode("copy_left"), CopyNode("copy_right")>>
TeeLinks ==
    <<Link(Port("copy_tee", "Out"), Port("copy_left", "In")),
      Link(Port("copy_tee", "Out"), Port("copy_right", "In"))>>

\* Mutant of StereoGraph: only the left branch is a graph output.
StereoGraphLeftOnly(title, nodes, links, first_filter) ==
    [title |-> title,
     nodes |-> nodes,
     links |-> links,
     inputs |-> <<Port(first_filter, "Input")>>,
     outputs |-> <<Port("copy_left", "Out")>>,
     channels |-> 0,
     position |-> <<"FL", "FR">>]

\* The stereo templates: no audio.channels line, playback position [ FL FR ].
StereoGraph(title, nodes, links, first_filter) ==
    [title |-> title,
     nodes |-> nodes,
     links |-> links,
     inputs |-> <<Port(first_filter, "Input")>>,
     outputs |-> <<Port("copy_left", "Out"), Port("copy_right", "Out")>>,
     channels |-> 0,
     position |-> <<"FL", "FR">>]

\* _generate_dual_mono_stereo().
GenerateDualMonoStereo(nodes, links, first_filter, last_filter) ==
    StereoGraph("Stereo output with Dual Mono",
                nodes \o TeeNodes,
                links \o <<Link(Port(last_filter, "Output"), Port("copy_tee", "In"))>>
                      \o TeeLinks,
                first_filter)

\* _generate_radio_mode(): the SC4 controls, printed with one decimal.
RadioControl(c) ==
    [rms_peak |-> 5,
     attack |-> 100,
     release |-> 1000 + c.stereo_width * 50,
     threshold |-> -150 - c.stereo_width * 5,
     ratio |-> 40 + c.stereo_width * 3,
     knee |-> 30,
     makeup_gain |-> 20 + c.stereo_width * 2]

\* Mutant of GenerateRadioMode: the chain is linked to the tee, bypassing the compressor.
GenerateRadioModeBypass(c, nodes, links, first_filter, last_filter) ==
    StereoGraph("Radio Voice Mode",
                nodes \o <<[type |-> "ladspa", name |-> "compressor", label |-> "sc4m",
                            control |-> RadioControl(c)]>>
                      \o TeeNodes,
                links \o <<Link(Port(last_filter, "Output"), Port("copy_tee", "In"))>>
                      \o TeeLinks,
                first_filter)

\* _generate_radio_mode().
GenerateRadioMode(c, nodes, links, first_filter, last_filter) ==
    StereoGraph("Radio Voice Mode",
                nodes \o <<[type |-> "ladspa", name |-> "compressor", label |-> "sc4m",
                            control |-> RadioControl(c)]>>
                      \o TeeNodes,
                links \o <<Link(Port(last_filter, "Output"), Port("compressor", "Input")),
                           Link(Port("compressor", "Output"), Port("copy_tee", "In"))>>
                      \o TeeLinks,
                first_filter)

\* 4.0 ** width in millionths, for width = -0.10, -0.05, .. 1.10 (entry w + 3).
FourToThe ==
    <<870551, 933033, 1000000, 1071773, 1148698, 1231144, 1319508, 1414214,
      1515717, 1624505, 1741101, 1866066, 2000000, 2143547, 2297397, 2462289,
      2639016, 2828427, 3031433, 3249010, 3482202, 3732132, 4000000, 4287094,
      4594793>>

\* "{x:.2f}" of a value held in millionths: hundredths, rounded to nearest.
Format2f(x) == (2 * x + 10000) \div 20000

\* _generate_pitch_mode(): "pitch_coeff = max(0.5, min(2.0, 0.5 * 4.0**width))".
PitchCoeff(width) == Max(500000, Min(2000000, FourToThe[width + 3] \div 2))

\* Mutant of GainDb: the compensation is added whatever the pitch.
GainDbAlways(pitch_coeff) == 5000000 + (1000000 - pitch_coeff) * 20

\* _generate_pitch_mode(): "gain_db = 5.0; if pitch_coeff < 1.0: gain_db += (1.0 - pitch_coeff) * 20.0".
GainDb(pitch_coeff) ==
    5000000 + (IF pitch_coeff < 1000000 THEN (1000000 - pitch_coeff) * 20 ELSE 0)

\* _generate_pitch_mode().
GeneratePitchMode(c, nodes, links, first_filter, last_filter) ==
    StereoGraph("Voice Changer",
                nodes \o <<[type |-> "ladspa", name |-> "pitch", label |-> "pitchScale",
                            control |-> [pitch |-> Format2f(PitchCoeff(c.stereo_width))]],
                           [type |-> "ladspa", name |-> "pitch_gain", label |-> "amp",
                            control |-> [gain |-> Format2f(GainDb(PitchCoeff(c.stereo_width)))]]>>
                      \o TeeNodes,
                links \o <<Link(Port(last_filter, "Output"), Port("pitch", "Input")),
                           Link(Port("pitch", "Output"), Port("pitch_gain", "Input")),
                           Link(Port("pitch_gain", "Output"), Port("copy_tee", "In"))>>
                      \o TeeLinks,
                first_filter)

\* _generate_stereo_config().
GenerateStereoConfig(c) ==
    IF ActiveFilters(c) = <<>> THEN GeneratePassthroughConfig
    ELSE IF c.stereo_mode = RADIO
    THEN GenerateRadioMode(c, ActiveNodes(c), ChainLinks(ActiveFilters(c)),
                           ActiveFilters(c)[1], ActiveFilters(c)[Len(ActiveFilters(c))])
    ELSE IF c.stereo_mode = VOICE_CHANGER
    THEN GeneratePitchMode(c, ActiveNodes(c), ChainLinks(ActiveFilters(c)),
                           ActiveFilters(c)[1], ActiveFilters(c)[Len(ActiveFilters(c))])
    ELSE GenerateDualMonoStereo(ActiveNodes(c), ChainLinks(ActiveFilters(c)),
                                ActiveFilters(c)[1], ActiveFilters(c)[Len(ActiveFilters(c))])

\* FilterChainGenerator.generate().
Generate(c) ==
    IF c.stereo_mode # MONO THEN GenerateStereoConfig(c) ELSE GenerateMonoConfig(c)

\* No graph has been generated yet.
NoGraph == [title |-> ""]

\* No FilterChainConfig has been built yet.
NoConfig == [stereo_mode |-> ""]

\* The generator applied to a configuration, as the tests and save() apply it.
GeneratorGenerate ==
    /\ graph = NoGraph
    /\ graph' = Generate(cfg)
    /\ UNCHANGED <<env_vars, is_updating, cached_node_id, ctl_vars, main_pc,
                   worker_vars, setter_vars, svc, disk, cfg, side_vars>>

\* ------------------------------------- the service's setters and start()
Clamp(lo, hi, x) == Max(lo, Min(hi, x))

\* "for param, val in updates.items(): self._update_param_live(param, val)":
\* the requests are queued in order, each with the next sequence number.
Stamp(items) ==
    [k \in 1..Len(items) |->
        [param |-> items[k].param, value |-> items[k].value, seq |-> enq_count + k]]

\* One call of a public method by the GTK thread: what it stores, what it
\* queues and what it returns. last_call records the call for the claims.
Call(op, ret, items, stored_svc) ==
    /\ update_queue' = update_queue \o Stamp(items)
    /\ enq_count' = enq_count + Len(items)
    /\ svc' = [stored_svc EXCEPT
                 !.calls = svc.calls + 1,
                 !.last_call = [op |-> op, ret |-> ret, running |-> is_enabled,
                                enq |-> Len(items)]]
    /\ UNCHANGED <<env_vars, is_updating, cached_node_id, ctl_vars, main_pc,
                   worker_vars, stored, last_sub, disk, cfg, graph, side_vars>>

\* A value some caller handed to the service: the field it is stored in, and
\* for one equalizer band its 1-based position.
Handed(field) == [field |-> field, index |-> 0]
HandedBand(i) == [field |-> "eq_band", index |-> i]

\* set_strength().
SetStrength(x) ==
    /\ svc.calls < MaxCalls
    /\ LET strength == Clamp(0, 20, x) IN
       Call("set_strength", TRUE,
            IF is_enabled THEN <<[param |-> "ai:Strength", value |-> strength]>> ELSE <<>>,
            [svc EXCEPT !.noise_reduction_strength = strength,
                        !.handed = @ \cup {Handed("noise_reduction_strength")}])

\* set_gate_threshold / _range / _attack / _hold / _release: the clamp and
\* the control name of each (attack in tenths of a millisecond).
GateSetters ==
    [threshold_db |-> [op |-> "set_gate_threshold", lo |-> -60, hi |-> 0,
                       param |-> "gate:Threshold (dB)"],
     range_db     |-> [op |-> "set_gate_range", lo |-> -90, hi |-> 0,
                       param |-> "gate:Range (dB)"],
     attack_ms    |-> [op |-> "set_gate_attack", lo |-> 1, hi |-> 5000,
                       param |-> "gate:Attack (ms)"],
     hold_ms      |-> [op |-> "set_gate_hold", lo |-> 0, hi |-> 1000,
                       param |-> "gate:Hold (ms)"],
     release_ms   |-> [op |-> "set_gate_release", lo |-> 0, hi |-> 1000,
                       param |-> "gate:Decay (ms)"]]

SetGate(g, x) ==
    /\ svc.calls < MaxCalls
    /\ LET s == GateSetters[g]
           v == Clamp(s.lo, s.hi, x) IN
       Call(s.op, TRUE,
            IF is_enabled THEN <<[param |-> s.param, value |-> v]>> ELSE <<>>,
            [svc EXCEPT !.gate_control[g] = v, !.handed = @ \cup {Handed(g)}])

\* get_stereo_enabled().
get_stereo_enabled == svc.stereo_mode # MONO

\* Mutant of StereoWidthUpdates: the compressor is updated in every mode but Voice Changer.
StereoWidthUpdatesAnyMode(mode, width) ==
    IF mode = VOICE_CHANGER
    THEN <<[param |-> "pitch:Pitch co-efficient", value |-> PitchCoeff(width)],
           [param |-> "pitch_gain:Amps gain (dB)", value |-> GainDb(PitchCoeff(width))]>>
    ELSE <<[param |-> "compressor:Ratio (1:n)", value |-> 40 + width * 3],
           [param |-> "compressor:Threshold level (dB)", value |-> -150 - width * 5],
           [param |-> "compressor:Release time (ms)", value |-> 1000 + width * 50],
           [param |-> "compressor:Makeup gain (dB)", value |-> 60 + width * 3]>>

\* set_stereo_width(): the updates of each mode (compressor values in tenths,
\* pitch and gain in millionths).
StereoWidthUpdates(mode, width) ==
    IF mode = RADIO
    THEN <<[param |-> "compressor:Ratio (1:n)", value |-> 40 + width * 3],
           [param |-> "compressor:Threshold level (dB)", value |-> -150 - width * 5],
           [param |-> "compressor:Release time (ms)", value |-> 1000 + width * 50],
           [param |-> "compressor:Makeup gain (dB)", value |-> 60 + width * 3]>>
    ELSE IF mode = VOICE_CHANGER
    THEN <<[param |-> "pitch:Pitch co-efficient", value |-> PitchCoeff(width)],
           [param |-> "pitch_gain:Amps gain (dB)", value |-> GainDb(PitchCoeff(width))]>>
    ELSE <<>>

\* set_stereo_width().
SetStereoWidth(x) ==
    /\ svc.calls < MaxCalls
    /\ LET width == Clamp(0, 20, x) IN
       Call("set_stereo_width", TRUE,
            IF ~is_enabled \/ ~get_stereo_enabled
            THEN <<>>
            ELSE StereoWidthUpdates(svc.stereo_mode, width),
            [svc EXCEPT !.stereo_width = width,
                        !.handed = @ \cup {Handed("stereo_width")}])

\* "eq:" + MBEQ_PARAM_NAMES[EQ_BAND_TO_MBEQ_INDEX[i]] for the 0-based band i.
EqParam(i) == MBEQ_PARAM_NAMES[EQ_BAND_TO_MBEQ_INDEX[i + 1] + 1]

\* set_eq_bands() and set_eq_band(): "max(-12.0, min(12.0, b))", in half dB.
StoredBand(b) == Clamp(-24, 24, b)

\* Mutant of SetEqBands: a list of any length is stored.
SetEqBandsAnyLength(bands) ==
    /\ svc.calls < MaxCalls
    /\ LET clamped == [i \in 1..Len(bands) |-> Clamp(-24, 24, bands[i])] IN
       Call("set_eq_bands", TRUE, <<>>,
            [svc EXCEPT !.eq_bands = clamped,
                        !.handed = @ \cup {Handed("eq_bands")}])

\* set_eq_bands(): gains in half decibels.
SetEqBands(bands) ==
    /\ svc.calls < MaxCalls
    /\ IF Len(bands) # 10
       THEN Call("set_eq_bands", FALSE, <<>>, svc)
       ELSE LET clamped == [i \in 1..10 |-> StoredBand(bands[i])] IN
            Call("set_eq_bands", TRUE,
                 IF is_enabled /\ svc.eq_enabled
                 THEN [i \in 1..10 |-> [param |-> EqParam(i - 1), value |-> clamped[i]]]
                 ELSE <<>>,
                 [svc EXCEPT !.eq_bands = clamped,
                             !.handed = @ \cup {Handed("eq_bands")}])

\* set_eq_band().
SetEqBand(band_index, x) ==
    /\ svc.calls < MaxCalls
    /\ IF ~(0 <= band_index /\ band_index < 10)
       THEN Call("set_eq_band", FALSE, <<>>, svc)
       ELSE LET value_db == StoredBand(x) IN
            Call("set_eq_band", TRUE,
                 IF is_enabled /\ svc.eq_enabled
                 THEN <<[param |-> EqParam(band_index), value |-> value_db]>>
                 ELSE <<>>,
                 [svc EXCEPT !.eq_bands[band_index + 1] = value_db,
                             !.handed = @ \cup {HandedBand(band_index + 1)}])

\* start() called without a settings object, as _restart() calls it.
NoSettings == [given |-> FALSE]

\* sync_from_settings().
SyncFromSettings(s) ==
    [svc EXCEPT
       !.noise_reduction_enabled = s.noise_reduction_enabled,
       !.noise_reduction_strength = s.noise_reduction_strength,
       !.gate_enabled = s.gate_enabled,
       !.gate_control = s.gate_control,
       !.stereo_mode = s.stereo_mode,
       !.stereo_width = s.stereo_width,
       !.eq_enabled = s.eq_enabled,
       !.eq_bands = s.eq_bands,
       !.handed = {Handed(f) : f \in DOMAIN GateSetters
                                    \cup {"noise_reduction_strength", "stereo_width",
                                          "eq_bands"}}]

\* _generate_config(): the FilterChainConfig built from a settings object.
ConfigFromSettings(s) ==
    [noise_reduction_enabled |-> s.noise_reduction_enabled,
     noise_reduction_strength |-> s.noise_reduction_strength,
     gate_enabled |-> s.gate_enabled,
     gate_control |-> s.gate_control,
     stereo_mode |-> IF s.stereo_enabled THEN s.stereo_mode ELSE MONO,
     stereo_width |-> s.stereo_width,
     eq_enabled |-> s.eq_enabled,
     eq_bands |-> s.eq_bands]

\* start(settings) up to its Popen, run by the one caller of ServiceSpec with
\* no other thread beside it: _stop_filter_chain(), sync_from_settings(settings)
\* when settings are given, _generate_config() with no argument, which loads
\* the settings file, then the spawn.
ServiceStart(s) ==
    /\ ~is_updating
    /\ Used < MaxProc
    /\ cached_node_id' = None
    /\ LET i == CHOOSE j \in Procs :
                    procs[j] = "none" /\ \A k \in Procs : k < j => procs[k] # "none" IN
       procs' = [j \in Procs |-> IF j = i THEN "booting" ELSE Killed(procs[j])]
    /\ svc' = [(IF s = NoSettings THEN svc ELSE SyncFromSettings(s)) EXCEPT
                 !.last_call = [op |-> "start", ret |-> TRUE, running |-> is_enabled,
                                enq |-> 0]]
    /\ cfg' = ConfigFromSettings(disk)
    /\ graph' = Generate(cfg')
    /\ config_file' = TRUE
    /\ UNCHANGED <<node_val, is_updating, ctl_vars, main_pc, worker_vars,
                   setter_vars, disk, side_vars>>

\* ----------------------------------------------- the two generation paths
\* cli.py generate_config(): the str "mono" handed over as stereo_mode.
\* StereoMode is a plain Enum, so it equals no member, StereoMode.MONO included.
MONO_STR == "str:mono"

\* cli.py generate_config(): the FilterChainConfig built from the loaded settings.
CliConfigFromSettings(s) ==
    [noise_reduction_enabled |-> TRUE,
     noise_reduction_strength |-> s.noise_reduction_strength,
     gate_enabled |-> s.gate_enabled,
     gate_control |-> s.gate_control,
     stereo_mode |-> IF s.stereo_enabled THEN s.stereo_mode ELSE MONO_STR,
     stereo_width |-> s.stereo_width,
     eq_enabled |-> s.eq_enabled,
     eq_bands |-> s.eq_bands]

\* What neither generation path touches.
generate_frame == <<procs, node_val, is_updating, cached_node_id, ctl_vars, main_pc,
                    worker_vars, setter_vars, svc, disk, side_vars>>

\* PipeWireService._generate_config() with no argument: load_settings(), build
\* the FilterChainConfig, FilterChainGenerator(config).save(self._config_file).
GenerateConfig ==
    /\ cfg' = ConfigFromSettings(disk)
    /\ graph' = Generate(cfg')
    /\ config_file' = TRUE
    /\ UNCHANGED generate_frame

\* cli.py generate_config(): load_settings(), build the FilterChainConfig,
\* FilterChainGenerator(config).save().
CliGenerateConfig ==
    /\ cfg' = CliConfigFromSettings(disk)
    /\ graph' = Generate(cfg')
    /\ config_file' = TRUE
    /\ UNCHANGED generate_frame

\* ------------------------------------------------------ the profile service
\* ProfileService.DEFAULT_PROFILES.
DEFAULT_PROFILES == {"voice_call", "music_recording", "podcast", "gaming"}
\* The ids str(uuid.uuid4())[:8] can give a new profile; two calls may give the same.
UserIds == {"0a1b2c3d", "4e5f6a7b"}
\* An id no profile has.
UnknownIds == {"nonexistent"}
ProfileIds == DEFAULT_PROFILES \cup UserIds
\* None, as _active_profile_id holds it.
NoProfile == "None"
\* What a profile's audio settings are: those of a default profile, the
\* dataclass defaults, what an imported file held, what the caller edited.
ProfileSettings == DEFAULT_PROFILES \cup {"dataclass", "imported", "edited"}

NoProfileCall == [op |-> "none", id |-> NoProfile, ret |-> TRUE, was_active |-> NoProfile]

\* ProfileService.__init__() in an empty config directory: the default
\* profiles, no active profile, no profiles.json.
InitialProfileService ==
    [profiles |-> [id \in DEFAULT_PROFILES |-> id],
     active_profile_id |-> NoProfile,
     file |-> [exists |-> FALSE, active_profile |-> NoProfile, profiles |-> <<>>],
     last_call |-> NoProfileCall]

\* The profiles dictionary with one entry set or added.
WithProfile(profiles, id, settings) ==
    [k \in DOMAIN profiles \cup {id} |-> IF k = id THEN settings ELSE profiles[k]]

\* _save_profiles(): the user profiles and the active id, written to profiles.json.
SaveProfiles(profiles, active) ==
    [exists |-> TRUE, active_profile |-> active,
     profiles |-> [k \in DOMAIN profiles \ DEFAULT_PROFILES |-> profiles[k]]]

\* One ProfileService method: the fields it leaves, and what it returned.
ProfileCall(op, id, ret, profiles, active, saved) ==
    [profiles |-> profiles,
     active_profile_id |-> active,
     file |-> IF saved THEN SaveProfiles(profiles, active)
              ELSE profile_service.file,
     last_call |-> [op |-> op, id |-> id, ret |-> ret,
                    was_active |-> profile_service.active_profile_id]]

\* What no ProfileService method touches.
profile_frame == <<env_vars, is_updating, cached_node_id, ctl_vars, main_pc,
                   worker_vars, setter_vars, gen_vars, discovery, task_queue>>

\* set_active_profile(): an id that is neither None nor a profile's is ignored.
SetActiveProfile(profile_id) ==
    /\ profile_service' =
       LET s == profile_service IN
       IF profile_id # NoProfile /\ profile_id \notin DOMAIN s.profiles
       THEN ProfileCall("set_active_profile", profile_id, FALSE,
                        s.profiles, s.active_profile_id, FALSE)
       ELSE ProfileCall("set_active_profile", profile_id, TRUE,
                        s.profiles, profile_id, TRUE)
    /\ UNCHANGED profile_frame

\* create_profile(): the settings are copied from the base profile when it
\* exists; the new profile gets a fresh id.
CreateProfile(new_id, base_profile_id) ==
    /\ profile_service' =
       LET s == profile_service
           settings == IF base_profile_id \in DOMAIN s.profiles
                       THEN s.profiles[base_profile_id] ELSE "dataclass" IN
       ProfileCall("create_profile", new_id, TRUE,
                   WithProfile(s.profiles, new_id, settings),
                   s.active_profile_id, TRUE)
    /\ UNCHANGED profile_frame

\* duplicate_profile(): None when the original is not found, else create_profile.
DuplicateProfile(new_id, profile_id) ==
    /\ profile_service' =
       LET s == profile_service IN
       IF profile_id \notin DOMAIN s.profiles
       THEN ProfileCall("duplicate_profile", profile_id, FALSE,
                        s.profiles, s.active_profile_id, FALSE)
       ELSE ProfileCall("duplicate_profile", new_id, TRUE,
                        WithProfile(s.profiles, new_id, s.profiles[profile_id]),
                        s.active_profile_id, TRUE)
    /\ UNCHANGED profile_frame

\* import_profile(): the file's profile under a fresh id, or None when the
\* file cannot be read or parsed.
ImportProfile(new_id, readable) ==
    /\ profile_service' =
       LET s == profile_service IN
       IF ~readable
       THEN ProfileCall("import_profile", NoProfile, FALSE,
                        s.profiles, s.active_profile_id, FALSE)
       ELSE ProfileCall("import_profile", new_id, TRUE,
                        WithProfile(s.profiles, new_id, "imported"),
                        s.active_profile_id, TRUE)
    /\ UNCHANGED profile_frame

\* update_profile(): unknown and default profiles are left alone.
UpdateProfile(profile_id) ==
    /\ profile_service' =
       LET s == profile_service IN
       IF profile_id \notin DOMAIN s.profiles \/ profile_id \in DEFAULT_PROFILES
       THEN ProfileCall("update_profile", profile_id, FALSE,
                        s.profiles, s.active_profile_id, FALSE)
       ELSE ProfileCall("update_profile", profile_id, TRUE,
                        WithProfile(s.profiles, profile_id, "edited"),
                        s.active_profile_id, TRUE)
    /\ UNCHANGED profile_frame

\* Mutant of DeleteProfile: the active id is not cleared.
DeleteProfileKeepsActive(profile_id) ==
    /\ profile_service' =
       LET s == profile_service IN
       IF profile_id \in DEFAULT_PROFILES \/ profile_id \notin DOMAIN s.profiles
       THEN ProfileCall("delete_profile", profile_id, FALSE,
                        s.profiles, s.active_profile_id, FALSE)
       ELSE ProfileCall("delete_profile", profile_id, TRUE,
                        [k \in DOMAIN s.profiles \ {profile_id} |-> s.profiles[k]],
                        s.active_profile_id, TRUE)
    /\ UNCHANGED profile_frame

\* delete_profile(): default and unknown profiles are refused; deleting the
\* active profile clears the active id.
DeleteProfile(profile_id) ==
    /\ profile_service' =
       LET s == profile_service IN
       IF profile_id \in DEFAULT_PROFILES \/ profile_id \notin DOMAIN s.profiles
       THEN ProfileCall("delete_profile", profile_id, FALSE,
                        s.profiles, s.active_profile_id, FALSE)
       ELSE ProfileCall("delete_profile", profile_id, TRUE,
                        [k \in DOMAIN s.profiles \ {profile_id} |-> s.profiles[k]],
                        IF s.active_profile_id = profile_id
                        THEN NoProfile ELSE s.active_profile_id,
                        TRUE)
    /\ UNCHANGED profile_frame

\* apply_profile(): False for an unknown id; else the settings are copied to
\* the configuration objects passed and set_active_profile(profile_id) runs.
ApplyProfile(profile_id) ==
    /\ profile_service' =
       LET s == profile_service IN
       IF profile_id \notin DOMAIN s.profiles
       THEN ProfileCall("apply_profile", profile_id, FALSE,
                        s.profiles, s.active_profile_id, FALSE)
       ELSE ProfileCall("apply_profile", profile_id, TRUE,
                        s.profiles, profile_id, TRUE)
    /\ UNCHANGED profile_frame

\* A new ProfileService on the same directory: _load_profiles() takes the
\* defaults, then the active id and the user profiles of profiles.json.
LoadProfiles ==
    /\ profile_service.file.exists
    /\ profile_service' =
       LET f == profile_service.file IN
       ProfileCall("load", NoProfile, TRUE,
                   [k \in DEFAULT_PROFILES \cup DOMAIN f.profiles |->
                        IF k \in DOMAIN f.profiles THEN f.profiles[k] ELSE k],
                   f.active_profile, FALSE)
    /\ UNCHANGED profile_frame

\* --------------------------------------------------------- node discovery
\* filter_chain.py: FILTER_SMART_NAME, written as filter.smart.name into
\* playback.props of every generated configuration.
FILTER_SMART_NAME == "big.filter-microphone"

\* The objects a pw-dump can list; node.name is held as its dot-separated
\* parts, so that "x in name" is a test on the parts. The generated
\* configuration sets no node.name: module-filter-chain names its two streams
\* input.filter-chain-<pid>-<n> and output.filter-chain-<pid>-<n>, and only the
\* playback side carries filter.smart.name.
NodeType == "PipeWire:Interface:Node"
DumpKinds ==
    {[type |-> NodeType, name |-> <<"output", "filter-chain">>, smart |-> FILTER_SMART_NAME],
     [type |-> NodeType, name |-> <<"input", "filter-chain">>, smart |-> ""],
     [type |-> NodeType, name |-> <<"effect_input", "filter-chain", "eq">>, smart |-> ""],
     [type |-> NodeType, name |-> <<"alsa_input", "usb-mic">>, smart |-> ""],
     [type |-> "PipeWire:Interface:Device", name |-> <<"alsa_card", "usb-mic">>, smart |-> ""]}
MaxDump == 3
\* The k-th object of a dump has object.id 30 + k and object.serial 130 + k.
ObjectId(k) == 30 + k
ObjectSerial(k) == 130 + k
Dumps == UNION {[1..n -> DumpKinds] : n \in 0..MaxDump}

\* Python's "part in name" for the names above.
NameHas(name, part) == \E k \in 1..Len(name) : name[k] = part

\* The first of the positions at which a scan of the dump stops, 0 when none.
First(hits) ==
    IF hits = {} THEN 0 ELSE CHOOSE k \in hits : \A j \in hits : k <= j

\* _get_filter_chain_node_id(): the test applied to each object of the dump.
ServiceMatch(obj) ==
    /\ obj.type = NodeType
    /\ NameHas(obj.name, FILTER_SMART_NAME) \/ NameHas(obj.name, "filter-chain")

\* _detect_filtered_source(): the test applied to each object of the dump.
MonitorMatch(obj) ==
    /\ obj.type = NodeType
    /\ obj.smart = FILTER_SMART_NAME

InitialDiscovery == [dump |-> <<>>, node_id |-> None, serial |-> None, calls |-> 0]

\* What neither discovery function touches.
discovery_frame == <<env_vars, is_updating, ctl_vars, main_pc, worker_vars,
                     setter_vars, gen_vars, profile_service, task_queue>>

\* _get_filter_chain_node_id(): the cached id, or the object.id of the first
\* node of the dump whose node.name matches, which is cached.
GetFilterChainNodeId ==
    /\ LET k == First({j \in 1..Len(discovery.dump) : ServiceMatch(discovery.dump[j])})
           found == IF cached_node_id # None THEN cached_node_id
                    ELSE IF k = 0 THEN None ELSE ObjectId(k)
       IN  /\ discovery' = [discovery EXCEPT !.node_id = found, !.calls = 1]
           /\ cached_node_id' = found
    /\ UNCHANGED discovery_frame

\* AudioMonitor._detect_filtered_source(): the object.serial of the first node
\* whose filter.smart.name is FILTER_SMART_NAME.
DetectFilteredSource ==
    /\ LET k == First({j \in 1..Len(discovery.dump) : MonitorMatch(discovery.dump[j])})
       IN  discovery' = [discovery EXCEPT
                            !.serial = IF k = 0 THEN None ELSE ObjectSerial(k)]
    /\ UNCHANGED <<discovery_frame, cached_node_id>>

\* ---------------------------------------------------------- AsyncTaskQueue
\* The threads that call add(), and the GTK main loop, which runs the
\* _process_next calls handed to GLib.idle_add.
NCallers == 3
Callers == 1..NCallers
MainLoop == 0
\* add() is called at most this many times.
MaxAdds == 3
Tasks == {"a", "b", "c"}
NoTask == "none"
\* self._lock, a threading.Lock: free, or held by one caller. It is not
\* reentrant: acquire() blocks whoever calls it while it is held, its
\* holder included.
Free == -1

\* AsyncTaskQueue.__init__().
InitialTaskQueue ==
    [queue |-> <<>>, is_running |-> FALSE, lock |-> Free,
     pc |-> [c \in Callers \cup {MainLoop} |-> "idle"],
     arg |-> [c \in Callers |-> NoTask],
     executed |-> <<>>, added |-> 0]

\* What no AsyncTaskQueue method touches.
queue_frame == <<env_vars, is_updating, cached_node_id, ctl_vars, main_pc,
                 worker_vars, setter_vars, gen_vars, profile_service, discovery>>

\* add(func, ...) is called: the caller reaches "with self._lock:".
Add(c, t) ==
    /\ task_queue.pc[c] = "idle"
    /\ task_queue.added < MaxAdds
    /\ task_queue' = [task_queue EXCEPT !.pc[c] = "add_lock", !.arg[c] = t,
                                        !.added = @ + 1]
    /\ UNCHANGED queue_frame

\* add(): the lock is acquired; "self._queue.append(...)"; "if not
\* self._is_running: self._is_running = True; self._process_next()", called
\* inside the with block; otherwise the block ends and add() returns.
AddLocked(c) ==
    /\ task_queue.pc[c] = "add_lock"
    /\ task_queue.lock = Free
    /\ task_queue' =
         IF ~task_queue.is_running
         THEN [task_queue EXCEPT !.queue = Append(@, task_queue.arg[c]),
                                 !.lock = c,
                                 !.is_running = TRUE,
                                 !.pc[c] = "process_next"]
         ELSE [task_queue EXCEPT !.queue = Append(@, task_queue.arg[c]),
                                 !.pc[c] = "idle"]
    /\ UNCHANGED queue_frame

\* _process_next(), called by add() or by the main loop: "with self._lock:"
\* waits while the lock is held; then, with an empty queue, "self._is_running
\* = False; return", else the first task is popped, the lock released and
\* the task submitted to the executor, which runs it and in its "finally"
\* hands _process_next to GLib.idle_add.
ProcessNext(c) ==
    /\ task_queue.pc[c] \in {"process_next", "waiting"}
    /\ task_queue' =
         IF task_queue.lock # Free
         THEN [task_queue EXCEPT !.pc[c] = "waiting"]
         ELSE IF task_queue.queue = <<>>
         THEN [task_queue EXCEPT !.is_running = FALSE, !.pc[c] = "idle"]
         ELSE [task_queue EXCEPT !.queue = Tail(@),
                                 !.executed = Append(@, Head(task_queue.queue)),
                                 !.pc = [@ EXCEPT ![c] = "idle",
                                                  ![MainLoop] = "process_next"]]
    /\ UNCHANGED queue_frame

\* ---------------------------------------------------------- specifications
\* At launch either nothing runs, or an instance a previous session started
\* is still up with its config file in place.
InitRuntime ==
    /\ procs \in {[i \in Procs |-> "none"],
                  [i \in Procs |-> IF i = 1 THEN "up" ELSE "none"]}
    /\ config_file = (procs[1] = "up")
    /\ is_updating = FALSE
    /\ cached_node_id = None
    /\ update_queue = <<>>
    /\ stored = [p \in Params |-> 0]
    /\ node_val = [i \in Procs |-> NoValues]
    /\ pc = [t \in Threads |-> "idle"]
    /\ job = [t \in Threads |-> "none"]
    /\ polls = [t \in Threads |-> 0]
    /\ stop_res = [t \in Threads |-> "none"]
    /\ start_res = [t \in Threads |-> "none"]
    /\ main_pc = "idle"
    /\ w_pc = "wait"
    /\ w_item = NoItem
    /\ w_node = None
    /\ w_disc = 0
    /\ w_sent = 0
    /\ enq_count = 0
    /\ deq_count = 0
    /\ last_sub = [p \in Params |-> NoSub]
    /\ last_res = NoRes

\* AppSettings(): the defaults load_settings() returns when there is no file.
AppSettings ==
    [noise_reduction_enabled |-> TRUE, noise_reduction_strength |-> 20,
     gate_enabled |-> TRUE,
     gate_control |-> [threshold_db |-> -30, range_db |-> -60, attack_ms |-> 200,
                       hold_ms |-> 300, release_ms |-> 150],
     stereo_enabled |-> TRUE, stereo_mode |-> DUAL_MONO, stereo_width |-> 15,
     eq_enabled |-> FALSE, eq_bands |-> NoBands]

NoCall == [op |-> "none", ret |-> TRUE, running |-> FALSE, enq |-> 0]

\* PipeWireService.__init__(): the internal state tracking fields.
InitialService ==
    [noise_reduction_enabled |-> TRUE, noise_reduction_strength |-> 20,
     gate_enabled |-> TRUE,
     gate_control |-> [threshold_db |-> -36, range_db |-> -60, attack_ms |-> 100,
                       hold_ms |-> 300, release_ms |-> 150],
     stereo_mode |-> MONO, stereo_width |-> 14,
     eq_enabled |-> FALSE, eq_bands |-> NoBands,
     calls |-> 0, last_call |-> NoCall, handed |-> {}]

\* Nothing has been done yet with the objects beside PipeWireService.
InitSide ==
    /\ profile_service = InitialProfileService
    /\ discovery = InitialDiscovery
    /\ task_queue = InitialTaskQueue

Init ==
    /\ InitRuntime
    /\ InitSide
    /\ svc = InitialService
    /\ disk = AppSettings
    /\ cfg = NoConfig
    /\ graph = NoGraph

\* The configurations the generator is applied to.
Widths == -2..22
BandInputs ==
    {NoBands, [i \in 1..10 |-> i], <<5, 6, 7>>, [i \in 1..12 |-> -i],
     [i \in 1..10 |-> 8 * i - 40]}
ConfigInputs ==
    [noise_reduction_enabled : BOOLEAN, noise_reduction_strength : {20},
     gate_enabled : BOOLEAN, gate_control : {FilterChainConfig.gate_control},
     stereo_mode : StereoMode, stereo_width : Widths,
     eq_enabled : BOOLEAN, eq_bands : BandInputs]

GenerateInit ==
    /\ InitRuntime
    /\ InitSide
    /\ procs[1] = "none"
    /\ svc = InitialService
    /\ disk = AppSettings
    /\ cfg \in ConfigInputs
    /\ graph = NoGraph

GenerateSpec == GenerateInit /\ [][GeneratorGenerate]_vars

\* The settings objects the UI holds and saves: the defaults, a Radio Voice
\* setup with the equalizer on, a Voice Changer setup with stereo switched off.
SettingsInputs ==
    {AppSettings,
     [AppSettings EXCEPT !.noise_reduction_strength = 10,
                         !.gate_control.threshold_db = -40,
                         !.stereo_mode = RADIO, !.stereo_width = 10,
                         !.eq_enabled = TRUE, !.eq_bands = [i \in 1..10 |-> i]],
     [AppSettings EXCEPT !.stereo_enabled = FALSE,
                         !.stereo_mode = VOICE_CHANGER, !.stereo_width = 5]}

\* Slider positions handed to the setters, out-of-range ones included.
StrengthArgs == {10, 30}
GateArgs == {-20, 2000}
WidthArgs == {10, 22}
BandListArgs == {[i \in 1..10 |-> 3 * i], <<5, 6, 7>>}
BandIndexArgs == {-1, 9, 10}
BandValueArgs == {7, -30}

ServiceInit ==
    /\ InitRuntime
    /\ InitSide
    /\ procs[1] = "none"
    /\ svc = InitialService
    /\ disk \in SettingsInputs
    /\ cfg = NoConfig
    /\ graph = NoGraph

\* The service as the GTK thread drives it: the continuous setters and
\* start(), beside the events that change what is_enabled() answers. The
\* settings file holds whatever the UI saved last.
ServiceNext ==
    \/ \E i \in Procs : ProcExit(i)
    \/ CliStop
    \/ \E x \in StrengthArgs : SetStrength(x)
    \/ \E g \in DOMAIN GateSetters, x \in GateArgs : SetGate(g, x)
    \/ \E x \in WidthArgs : SetStereoWidth(x)
    \/ \E bands \in BandListArgs : SetEqBands(bands)
    \/ \E i \in BandIndexArgs, x \in BandValueArgs : SetEqBand(i, x)
    \/ \E s \in SettingsInputs \cup {NoSettings} : ServiceStart(s)

ServiceSpec == ServiceInit /\ [][ServiceNext]_vars

\* The profile service as the profiles dialog drives it.
ProfileNext ==
    \/ \E id \in ProfileIds \cup UnknownIds \cup {NoProfile} : SetActiveProfile(id)
    \/ \E new_id \in UserIds, base \in {NoProfile, "podcast", "nonexistent"} :
          CreateProfile(new_id, base)
    \/ \E new_id \in UserIds, id \in ProfileIds \cup UnknownIds :
          DuplicateProfile(new_id, id)
    \/ \E new_id \in UserIds, readable \in BOOLEAN : ImportProfile(new_id, readable)
    \/ \E id \in ProfileIds \cup UnknownIds : UpdateProfile(id)
    \/ \E id \in ProfileIds \cup UnknownIds : DeleteProfile(id)
    \/ \E id \in ProfileIds \cup UnknownIds : ApplyProfile(id)
    \/ LoadProfiles

ProfileInit ==
    /\ InitRuntime
    /\ InitSide
    /\ procs[1] = "none"
    /\ svc = InitialService
    /\ disk = AppSettings
    /\ cfg = NoConfig
    /\ graph = NoGraph

ProfileSpec == ProfileInit /\ [][ProfileNext]_vars

Environment ==
    \/ \E i \in Procs : ProcReady(i)
    \/ \E i \in Procs : ProcExit(i)
    \/ CliStop

\* A thread the UI made for one start() or one stop().
Caller(t) ==
    \/ CallStart(t)
    \/ CallStop(t)
    \/ StartCheck(t)
    \/ StartSet(t)
    \/ StopFilterChain(t, "start_kill", "start_spawn")
    \/ StartSpawn(t)
    \/ StartPoll(t)
    \/ StopCheck(t)
    \/ StopSet(t)
    \/ StopFilterChain(t, "stop_kill", "stop_ret")
    \/ StopReturn(t)
    \/ ThreadExit(t)

\* Any controller thread, apply_config's restart thread included.
Controller(t) ==
    \/ Caller(t)
    \/ RestartComplete(t)

ApplyConfig ==
    \/ ApplyConfigGenerate
    \/ ApplyConfigDispatch

Worker ==
    \/ WorkerGet
    \/ WorkerResolve
    \/ WorkerStore
    \/ WorkerSend

\* The controller: the UI's start, stop and restart threads, apply_config, and
\* the processes they drive. The worker and the setters never touch what
\* start(), stop() and is_enabled() read, and are left to LiveSpec.
Next ==
    \/ Environment
    \/ \E t \in Threads : Controller(t)
    \/ ApplyConfig

Spec == Init /\ [][Next]_vars

\* The live-update path: the setters, the worker and its node-id cache, beside
\* one controller thread that starts, stops and restarts the instance.
LiveNext ==
    \/ \E i \in Procs : ProcReady(i)
    \/ \E i \in Procs : ProcExit(i)
    \/ Caller(1)
    \/ Worker
    \/ \E p \in Params, v \in Values : Setter(p, v, MaxUpdates)

LiveSpec == Init /\ [][LiveNext]_vars

\* Node discovery applied to every dump of up to MaxDump objects.
DiscoveryNext ==
    \/ GetFilterChainNodeId
    \/ DetectFilteredSource

DiscoveryInit ==
    /\ InitRuntime
    /\ procs[1] = "none"
    /\ profile_service = InitialProfileService
    /\ discovery \in [dump : Dumps, node_id : {None}, serial : {None}, calls : {0}]
    /\ task_queue = InitialTaskQueue
    /\ svc = InitialService
    /\ disk = AppSettings
    /\ cfg = NoConfig
    /\ graph = NoGraph

DiscoverySpec == DiscoveryInit /\ [][DiscoveryNext]_vars

\* The settings a settings file can hold: every stage on or off, stereo
\* enhancement on or off, every stored mode.
SavedSettings ==
    {[AppSettings EXCEPT !.noise_reduction_enabled = nr, !.gate_enabled = gate,
                         !.eq_enabled = eq, !.stereo_enabled = st,
                         !.stereo_mode = mode] :
        nr \in BOOLEAN, gate \in BOOLEAN, eq \in BOOLEAN, st \in BOOLEAN,
        mode \in StereoMode}

\* The configuration file written from the saved settings by the service or
\* by the command line.
PathsNext ==
    \/ GenerateConfig
    \/ CliGenerateConfig

PathsInit ==
    /\ InitRuntime
    /\ InitSide
    /\ procs[1] = "none"
    /\ svc = InitialService
    /\ disk \in SavedSettings
    /\ cfg = NoConfig
    /\ graph = NoGraph

PathsSpec == PathsInit /\ [][PathsNext]_vars

\* An AsyncTaskQueue with several threads adding tasks to it.
QueueNext ==
    \/ \E c \in Callers, t \in Tasks : Add(c, t)
    \/ \E c \in Callers : AddLocked(c)
    \/ \E c \in Callers \cup {MainLoop} : ProcessNext(c)

QueueInit ==
    /\ InitRuntime
    /\ InitSide
    /\ procs[1] = "none"
    /\ svc = InitialService
    /\ disk = AppSettings
    /\ cfg = NoConfig
    /\ graph = NoGraph

QueueSpec == QueueInit /\ [][QueueNext]_vars

\* =================================================================== claims
\* A thread is inside a transition body once it has set the flag and until
\* its start() or stop() returns: kill, config write, spawn, polling.
InStartBody(t) == pc[t] \in {"start_kill", "start_spawn", "start_poll"}
InStopBody(t) == pc[t] \in {"stop_kill", "stop_ret"}
InBody(t) == InStartBody(t) \/ InStopBody(t)

\* C1: with start() and stop() called from different threads, at most one of
\* them is inside a transition body at any time; a call arriving meanwhile is
\* rejected as busy.
C1_OneTransitionInFlight ==
    Cardinality({t \in Threads : InBody(t)}) <= 1

\* C2 as claimed: a stop() issued while a start() is in flight is not refused.
C2_StopDuringStartNotRefused ==
    \A t \in Threads, u \in Threads :
        (job[t] = "stop" /\ pc[t] = "done" /\ InStartBody(u)) => stop_res[t] # "busy"

\* C2 as amended: a stop() that finds the busy flag set by a transition in
\* flight is refused: it returns at once, reporting failure, and kills no
\* process, removes no config file and leaves the cache and the flag as they are.
C2_StopRefusedWhileBusy ==
    [][\A t \in Threads :
        (pc[t] = "stop_check" /\ is_updating /\ pc'[t] # "stop_check")
        => /\ pc'[t] = AfterStop(t)
           /\ job[t] = "stop" => stop_res'[t] = "busy"
           /\ UNCHANGED <<procs, config_file, cached_node_id, is_updating>>]_vars

C2_Witness ==
    \E t \in Threads, u \in Threads :
        /\ job[t] = "stop" /\ pc[t] = "done" /\ stop_res[t] = "busy"
        /\ job[u] = "start" /\ InStartBody(u)

C4_ExhaustedStartFails ==
    [][\A t \in Threads :
        (pc[t] = "start_poll" /\ pc'[t] # "start_poll" /\ polls'[t] = PollBudget)
        => /\ start_res'[t] = "fail"
           /\ ~is_updating'
           /\ ~is_enabled']_vars

C4_Witness ==
    \E t \in Threads :
        /\ pc[t] \in {"done", "complete"}
        /\ start_res[t] = "fail"
        /\ polls[t] = PollBudget

\* C5: apply_config's on_complete is scheduled only once the restart has ended
\* with the new instance confirmed, never after a rejected or failed start.
C5_OnCompleteOnlyAfterConfirmedStart ==
    [][\A t \in Threads :
        (pc[t] = "complete" /\ pc'[t] = "idle") => start_res[t] = "ok"]_vars

\* The queue is empty and the worker is back in get().
Drained == update_queue = <<>> /\ w_pc = "wait"

\* The instance has been sent SIGTERM by _stop_filter_chain() (or is gone).
Superseded(i) == procs[i] \in {"term", "dying", "dead"}

\* C6: under every interleaving with the worker, once a stop() or a start()
\* that restarts the instance has returned, the node-id cache is empty or
\* holds the id of an instance that transition did not kill; it never holds
\* the id of a previous process instance.
C6_NoStaleIdAfterTransition ==
    \A t \in Threads :
        (/\ pc[t] = "done"
         /\ \/ job[t] = "stop" /\ stop_res[t] # "busy"
            \/ job[t] = "start" /\ start_res[t] = "ok")
        => (cached_node_id = None \/ ~Superseded(cached_node_id))

\* C7: after every failed live update (node not resolvable, non-zero exit,
\* exception or timeout) the node-id cache is empty, and the request was
\* issued at most once and is not back in the queue.
C7_CacheEmptyAfterFailure ==
    (w_pc = "wait" /\ last_res.out \in {"notfound", "failed", "exception"})
        => /\ cached_node_id = None
           /\ w_sent <= 1
           /\ \A k \in 1..Len(update_queue) : update_queue[k].seq > deq_count

\* C8: the worker dequeues every enqueued request exactly once, one at a time,
\* in the order of enqueueing: the requests waiting are exactly those numbered
\* after the last one dequeued, in order, and the one being handled is the last
\* one dequeued.
C8_FifoExactlyOnce ==
    /\ Len(update_queue) = enq_count - deq_count
    /\ \A k \in 1..Len(update_queue) : update_queue[k].seq = deq_count + k
    /\ w_pc # "wait" => w_item.seq = deq_count
    /\ w_pc = "wait" => w_item = NoItem

C8_Witness ==
    /\ enq_count = 2
    /\ deq_count = 2
    /\ w_pc = "send"
    /\ w_item.seq = 2

C10_OneDiscoveryPerMiss ==
    [][/\ (w_pc = "resolve" /\ w_pc' # "resolve")
          => IF cached_node_id = None
             THEN w_pc' = "store" /\ w_disc' = 1 /\ w_sent' = 0
             ELSE w_pc' = "send" /\ w_disc' = 0 /\ w_node' = cached_node_id
       /\ (w_pc = "store" /\ w_pc' = "send")
          => w_disc' = 1 /\ cached_node_id' = w_node /\ w_node' = w_node
       /\ (w_pc = "send" /\ w_pc' = "wait")
          => w_disc' <= 1 /\ w_sent' = 1]_vars

C10_Witness ==
    /\ deq_count = 2
    /\ w_pc = "send"
    /\ w_disc = 0
    /\ w_node = cached_node_id
    /\ last_res.out = "ok"

\* ------------------------------------------------ the generated graph
Generated == graph # NoGraph
HasNode(g, n) == \E k \in 1..Len(g.nodes) : g.nodes[k].name = n
ControlOf(g, n) == g.nodes[CHOOSE k \in 1..Len(g.nodes) : g.nodes[k].name = n].control
HasLink(g, src, dst) == \E k \in 1..Len(g.links) : g.links[k] = Link(src, dst)
CoreStages == <<"ai", "gate", "eq">>
StageEnabled(c, n) ==
    \/ n = "ai" /\ c.noise_reduction_enabled
    \/ n = "gate" /\ c.gate_enabled
    \/ n = "eq" /\ c.eq_enabled
EnabledStages(c) == SelectSeq(CoreStages, LAMBDA n : StageEnabled(c, n))
IsCore(n) == \E k \in 1..Len(CoreStages) : CoreStages[k] = n

\* C13: in Radio mode the compressor controls follow from the width alone:
\* ratio 4+6w, threshold -15-10w dB, release 100+100w ms, makeup gain 6+6w dB,
\* attack and knee fixed (width 0.5: 7.0, -20.0, 150.0 and 9.0).
C13_RadioControls ==
    (Generated /\ cfg.stereo_mode = RADIO /\ HasNode(graph, "compressor"))
    => LET k == ControlOf(graph, "compressor")
           w == cfg.stereo_width
       IN  /\ k.ratio = 40 + 3 * w
           /\ k.threshold = -150 - 5 * w
           /\ k.release = 1000 + 50 * w
           /\ k.makeup_gain = 60 + 3 * w
           /\ k.attack = 100
           /\ k.knee = 30

\* C14: in VoiceChanger mode the pitch written is 0.5*4^width kept within
\* [0.5, 2.0], and the gain written is 5 dB plus (1-pitch)*20 dB below pitch
\* 1.0 and 5 dB otherwise: width 0.0 gives 0.50 and 15.00, width 0.5 gives
\* 1.00 and 5.00, width 1.0 gives 2.00 and 5.00.
C14_PitchAndGain ==
    (Generated /\ cfg.stereo_mode = VOICE_CHANGER /\ HasNode(graph, "pitch"))
    => LET pitch == ControlOf(graph, "pitch").pitch
           gain == ControlOf(graph, "pitch_gain").gain
           w == cfg.stereo_width
           ideal == 500 + (100 - pitch) * 20
       IN  /\ pitch >= 50 /\ pitch <= 200
           /\ w <= 0 => pitch = 50 /\ gain = 1500
           /\ w = 10 => pitch = 100 /\ gain = 500
           /\ w >= 20 => pitch = 200 /\ gain = 500
           /\ w >= 10 => gain = 500
           /\ w < 10 => pitch < 100 /\ gain - ideal <= 10 /\ ideal - gain <= 10

C14_Witness ==
    /\ Generated
    /\ cfg.stereo_mode = VOICE_CHANGER
    /\ cfg.stereo_width = 0
    /\ HasNode(graph, "pitch")
    /\ ControlOf(graph, "pitch").pitch = 50
    /\ ControlOf(graph, "pitch_gain").gain = 1500

\* C15: with noise reduction, gate and equalizer all disabled the graph is,
\* in every stereo mode and for every width, one builtin copy node with no
\* link, whose own ports are the graph's input and output; and no
\* configuration yields a graph without nodes, inputs or outputs.
C15_PassthroughWhenAllDisabled ==
    Generated =>
        /\ Len(graph.nodes) >= 1 /\ Len(graph.inputs) = 1 /\ Len(graph.outputs) >= 1
        /\ (Len(EnabledStages(cfg)) = 0) =>
              /\ Len(graph.nodes) = 1
              /\ graph.nodes[1].type = "builtin"
              /\ graph.nodes[1].label = "copy"
              /\ graph.links = <<>>
              /\ graph.inputs = <<Port(graph.nodes[1].name, "In")>>
              /\ graph.outputs = <<Port(graph.nodes[1].name, "Out")>>

C15_Witness ==
    /\ Generated
    /\ Len(EnabledStages(cfg)) = 0
    /\ cfg.stereo_mode = RADIO
    /\ cfg.stereo_width = 10
    /\ graph.nodes[1].name = "passthrough"

\* C16: the equalizer stage carries all 15 stage bands; UI band i goes to
\* the stage band the table [0,1,2,4,6,8,10,12,13,14] gives and to no other,
\* no two UI bands share a stage band, UI band 0 goes to the 50 Hz shelving
\* band, and the 220, 440, 880, 1750 and 3500 Hz bands are always 0.0.
C16_EqBandMapping ==
    (Generated /\ HasNode(graph, "eq"))
    => LET v == ControlOf(graph, "eq")
           tbl == <<0, 1, 2, 4, 6, 8, 10, 12, 13, 14>>
           n == Min(Len(cfg.eq_bands), 10)
       IN  /\ Len(v) = 15
           /\ \A i \in 1..n : v[tbl[i] + 1] = cfg.eq_bands[i]
           /\ \A j \in 1..15 :
                 (\A i \in 1..n : tbl[i] + 1 # j) => v[j] = 0
           /\ \A i1, i2 \in 1..10 : tbl[i1] = tbl[i2] => i1 = i2
           /\ MBEQ_PARAM_NAMES[tbl[1] + 1] = "50Hz gain (low shelving)"
           /\ \A j \in 1..15 :
                 MBEQ_PARAM_NAMES[j] \in {"220Hz gain", "440Hz gain", "880Hz gain",
                                          "1750Hz gain", "3500Hz gain"}
                 => v[j] = 0

C16_Witness ==
    /\ Generated
    /\ HasNode(graph, "eq")
    /\ cfg.eq_bands = [i \in 1..10 |-> i]
    /\ ControlOf(graph, "eq")[5] = 4
    /\ ControlOf(graph, "eq")[4] = 0
    /\ ControlOf(graph, "eq")[15] = 10

\* C17: with at least one stage enabled, in every stereo mode, the graph
\* starts with exactly the enabled stages in the order noise reduction, gate,
\* equalizer, linked consecutively Output to Input (k stages, k-1 such links),
\* and the graph input is the Input port of the first enabled stage.
C17_CoreChain ==
    (Generated /\ Len(EnabledStages(cfg)) >= 1)
    => LET exp == EnabledStages(cfg)
           k == Len(exp)
       IN  /\ Len(graph.nodes) >= k
           /\ \A j \in 1..k : graph.nodes[j].name = exp[j]
           /\ \A j \in (k + 1)..Len(graph.nodes) : ~IsCore(graph.nodes[j].name)
           /\ Cardinality({j \in 1..Len(graph.links) :
                  IsCore(graph.links[j].output[1]) /\ IsCore(graph.links[j].input[1])})
              = k - 1
           /\ \A j \in 1..(k - 1) :
                 graph.links[j] = Link(Port(exp[j], "Output"), Port(exp[j + 1], "Input"))
           /\ graph.inputs = <<Port(exp[1], "Input")>>

C17_Witness ==
    /\ Generated
    /\ Len(EnabledStages(cfg)) = 3
    /\ cfg.stereo_mode = VOICE_CHANGER
    /\ graph.links[2] = Link(Port("gate", "Output"), Port("eq", "Input"))

\* C18: with at least one stage enabled, Mono has one graph output, at the
\* last chain stage, and channel count 1; DualMono links the last chain stage
\* straight to the tee; Radio puts exactly one compressor between them;
\* VoiceChanger puts a pitch stage then a gain stage between them; in the
\* three stereo modes the tee feeds two branches, the graph has exactly two
\* outputs and the layout is FL FR.
C18_ModeDispatch ==
    (Generated /\ Len(EnabledStages(cfg)) >= 1)
    => LET exp == EnabledStages(cfg)
           k == Len(exp)
           last == Port(exp[k], "Output")
           tee == Port("copy_tee", "In")
           nComp == Cardinality({j \in 1..Len(graph.nodes) :
                                    graph.nodes[j].name = "compressor"})
       IN  IF cfg.stereo_mode = MONO
           THEN /\ graph.outputs = <<last>>
                /\ graph.channels = 1
                /\ Len(graph.nodes) = k
                /\ Len(graph.links) = k - 1
           ELSE /\ graph.outputs = <<Port("copy_left", "Out"), Port("copy_right", "Out")>>
                /\ graph.position = <<"FL", "FR">>
                /\ HasLink(graph, Port("copy_tee", "Out"), Port("copy_left", "In"))
                /\ HasLink(graph, Port("copy_tee", "Out"), Port("copy_right", "In"))
                /\ cfg.stereo_mode = DUAL_MONO =>
                      /\ HasLink(graph, last, tee)
                      /\ Len(graph.nodes) = k + 3
                      /\ Len(graph.links) = k + 2
                /\ cfg.stereo_mode = RADIO =>
                      /\ nComp = 1
                      /\ HasLink(graph, last, Port("compressor", "Input"))
                      /\ HasLink(graph, Port("compressor", "Output"), tee)
                      /\ Len(graph.nodes) = k + 4
                      /\ Len(graph.links) = k + 3
                /\ cfg.stereo_mode = VOICE_CHANGER =>
                      /\ HasLink(graph, last, Port("pitch", "Input"))
                      /\ HasLink(graph, Port("pitch", "Output"), Port("pitch_gain", "Input"))
                      /\ HasLink(graph, Port("pitch_gain", "Output"), tee)
                      /\ Len(graph.nodes) = k + 5
                      /\ Len(graph.links) = k + 4

C18_Witness ==
    /\ Generated
    /\ EnabledStages(cfg) = <<"eq">>
    /\ cfg.stereo_mode = RADIO
    /\ HasLink(graph, Port("eq", "Output"), Port("compressor", "Input"))
    /\ Len(graph.outputs) = 2

\* ------------------------------------------------ the setters and start()
ContinuousSetters ==
    {"set_strength", "set_stereo_width", "set_eq_band", "set_eq_bands"}
    \cup {GateSetters[g].op : g \in DOMAIN GateSetters}

\* The requests the last call queued: no worker runs in ServiceSpec, so they
\* are still the tail of the queue.
LastQueued ==
    SubSeq(update_queue, Len(update_queue) - svc.last_call.enq + 1, Len(update_queue))

LiveRequests ==
    LET c == svc.last_call IN
    IF ~c.running \/ ~c.ret THEN 0
    ELSE IF c.op = "set_stereo_width"
    THEN (IF svc.stereo_mode = RADIO THEN 4
          ELSE IF svc.stereo_mode = VOICE_CHANGER THEN 2 ELSE 0)
    ELSE IF c.op = "set_eq_bands" THEN (IF svc.eq_enabled THEN 10 ELSE 0)
    ELSE IF c.op = "set_eq_band" THEN (IF svc.eq_enabled THEN 1 ELSE 0)
    ELSE 1

ValueIn(r, h) ==
    IF h.field = "eq_band" THEN r.eq_bands[h.index]
    ELSE IF h.field \in DOMAIN GateSetters THEN r.gate_control[h.field]
    ELSE r[h.field]

\* C12: the configuration start() compiles and writes carries every value
\* handed to the service - stored by a setter while not running, or synced
\* from the settings passed to start() - whatever the settings file holds.
C12_StartBakesHandedValues ==
    svc.last_call.op = "start" =>
        /\ graph = Generate(cfg)
        /\ \A h \in svc.handed : ValueIn(cfg, h) = ValueIn(svc, h)

\* --------------------------------------------------- discovery that fails
\* C19: when pw-dump fails or finds no matching node the request ends as
\* NotFound: no pw-cli command is issued for it, the cache and everything the
\* setters and the controller see stay as they were, and the worker is back
\* at its queue, ready for the next request.
C19_NotFoundDropsRequest ==
    [][(w_pc = "store" /\ w_node = None /\ w_pc' # w_pc) =>
          /\ last_res' = [param |-> w_item.param, out |-> "notfound", node |-> None]
          /\ w_sent' = 0
          /\ w_pc' = "wait"
          /\ w_item' = NoItem
          /\ UNCHANGED <<cached_node_id, env_vars, setter_vars, ctl_vars, is_updating>>]_vars

\* A request ended as NotFound and the worker has taken the next one.
C19_Witness ==
    /\ last_res.out = "notfound"
    /\ deq_count = 2
    /\ w_pc = "resolve"
    /\ w_sent = 0

\* ---------------------------------------------------- stop() when stopped
\* Stopped: nothing is_enabled() looks at is there, and the cache is empty.
Stopped == ~is_enabled /\ cached_node_id = None

\* C20: a stop() that runs while the service is Stopped changes neither the
\* processes, nor the (absent) config file, nor the (empty) cache, and
\* returns success - each time it is called.
C20_StopWhenStoppedIdempotent ==
    [][\A t \in Threads :
          (job[t] = "stop" /\ Stopped) =>
              /\ (pc[t] = "stop_kill" /\ pc'[t] # pc[t]) =>
                    /\ UNCHANGED <<procs, config_file, cached_node_id>>
                    /\ Stopped'
              /\ (pc[t] = "stop_ret" /\ pc'[t] # pc[t]) =>
                    /\ stop_res'[t] = "ok"
                    /\ is_updating' = FALSE
                    /\ UNCHANGED <<procs, config_file, cached_node_id>>]_vars

\* A stop() has returned success although nothing was ever started.
C20_Witness ==
    /\ job[1] = "stop"
    /\ pc[1] = "done"
    /\ stop_res[1] = "ok"
    /\ \A i \in Procs : procs[i] = "none"
    /\ Stopped

\* ------------------------------------------------------ ten equalizer bands
EqSetters == {"set_eq_band", "set_eq_bands"}

\* C21: the service always holds exactly 10 band values; a set_eq_bands call
\* with a list not of length 10 and a set_eq_band call with an index outside
\* 0..9 return False, leave every stored band as it was and queue nothing.
C21_TenBandsAlways ==
    [][/\ Len(svc.eq_bands) = 10
       /\ Len(svc'.eq_bands) = 10
       /\ (svc'.calls # svc.calls /\ svc'.last_call.op \in EqSetters
           /\ ~svc'.last_call.ret) =>
              /\ svc'.eq_bands = svc.eq_bands
              /\ UNCHANGED <<update_queue, enq_count>>]_vars

\* A band list of the wrong length was refused while the filter chain was
\* running with the equalizer on.
C21_Witness ==
    /\ svc.last_call.op = "set_eq_bands"
    /\ ~svc.last_call.ret
    /\ svc.last_call.running
    /\ svc.eq_enabled
    /\ svc.last_call.enq = 0
    /\ Len(svc.eq_bands) = 10

\* ------------------------------------------------------ the active profile
\* C22: the active profile id is None or the id of a profile that exists;
\* deleting the active profile clears it, and set_active_profile with an
\* unknown id leaves the active profile as it was.
C22_ActiveProfileExists ==
    LET s == profile_service
        c == profile_service.last_call IN
    /\ s.active_profile_id = NoProfile \/ s.active_profile_id \in DOMAIN s.profiles
    /\ (c.op = "delete_profile" /\ c.ret) =>
          /\ c.id \notin DOMAIN s.profiles
          /\ c.was_active = c.id => s.active_profile_id = NoProfile
          /\ c.was_active # c.id => s.active_profile_id = c.was_active
    /\ (c.op = "set_active_profile" /\ c.id \in UnknownIds) =>
          s.active_profile_id = c.was_active
    /\ s.file.exists =>
          \/ s.file.active_profile = NoProfile
          \/ s.file.active_profile \in DEFAULT_PROFILES \cup DOMAIN s.file.profiles

\* The active profile has just been deleted.
C22_Witness ==
    /\ profile_service.last_call.op = "delete_profile"
    /\ profile_service.last_call.ret
    /\ profile_service.last_call.was_active = profile_service.last_call.id
    /\ profile_service.active_profile_id = NoProfile

\* ------------------------------------------- live width against baked width
\* The value set_stereo_width queues for a parameter, -1 when it queues none.
LiveValue(mode, width, param) ==
    LET ups == StereoWidthUpdates(mode, width)
        at == {k \in 1..Len(ups) : ups[k].param = param}
    IN  IF at = {} THEN -1 ELSE ups[CHOOSE k \in at : TRUE].value

\* C23: for every width in [0, 1] the values set_stereo_width pushes live are
\* the values the generator bakes for the same width and mode: ratio,
\* threshold, release and makeup gain in Radio mode, pitch and gain (as the
\* file prints them, with two decimals) in VoiceChanger mode.
C23_LiveWidthMatchesBaked ==
    (Generated /\ cfg.stereo_width \in 0..20) =>
       LET w == cfg.stereo_width IN
       /\ (cfg.stereo_mode = RADIO /\ HasNode(graph, "compressor")) =>
            LET k == ControlOf(graph, "compressor") IN
            /\ LiveValue(RADIO, w, "compressor:Ratio (1:n)") = k.ratio
            /\ LiveValue(RADIO, w, "compressor:Threshold level (dB)") = k.threshold
            /\ LiveValue(RADIO, w, "compressor:Release time (ms)") = k.release
            /\ LiveValue(RADIO, w, "compressor:Makeup gain (dB)") = k.makeup_gain
       /\ (cfg.stereo_mode = VOICE_CHANGER /\ HasNode(graph, "pitch")) =>
            /\ Format2f(LiveValue(VOICE_CHANGER, w, "pitch:Pitch co-efficient"))
                 = ControlOf(graph, "pitch").pitch
            /\ Format2f(LiveValue(VOICE_CHANGER, w, "pitch_gain:Amps gain (dB)"))
                 = ControlOf(graph, "pitch_gain").gain

\* ------------------------------------------------- what start() confirmed
\* C24: start() returns success only when a confirmation poll found the
\* instance it spawned present (every older one was sent SIGTERM by
\* _stop_filter_chain): no start() reports success at a poll during which
\* no filter-chain process and no filter source exists.
C24_SuccessMeansInstancePresent ==
    [][\A t \in Threads :
          (pc[t] = "start_poll" /\ pc'[t] # "start_poll" /\ start_res'[t] = "ok")
          => \E i \in Procs : Alive(procs[i]) \/ NodeVisible(procs[i])]_vars

\* -------------------------------------------- apply_config while stopped
\* C25: apply_config called while the filter chain is not running performs no
\* restart: its dispatch, reached with no filter-chain process and no filter
\* source present, hands no thread a restart and spawns nothing.
C25_NoRestartWhenNotRunning ==
    [][(/\ main_pc = "ac_check"
        /\ main_pc' = "idle"
        /\ \A i \in Procs : ~Alive(procs[i]) /\ ~NodeVisible(procs[i]))
       => UNCHANGED <<pc, job, procs>>]_vars

\* ------------------------------------------------ which node is discovered
\* The object of the dump with the given object.id (or object.serial) carries
\* filter.smart.name = big.filter-microphone.
IsManagedNode(k) ==
    /\ k \in 1..Len(discovery.dump)
    /\ discovery.dump[k].type = NodeType
    /\ discovery.dump[k].smart = FILTER_SMART_NAME

\* C26: node discovery returns, and caches, an id only of the node that
\* carries filter.smart.name = big.filter-microphone; every other object of
\* the dump is never returned and so never updated.
C26_OnlyManagedNodeDiscovered ==
    /\ discovery.node_id # None => IsManagedNode(discovery.node_id - ObjectId(0))
    /\ cached_node_id # None => IsManagedNode(cached_node_id - ObjectId(0))
    /\ discovery.serial # None => IsManagedNode(discovery.serial - ObjectSerial(0))

\* ----------------------------------------------- equalizer gains, both ways
\* config.py: EQ_BAND_MIN and EQ_BAND_MAX, -40.0 and 40.0 dB, in half dB.
EQ_BAND_MIN == -80
EQ_BAND_MAX == 80

\* C27: for every band gain within [EQ_BAND_MIN, EQ_BAND_MAX], the value
\* set_eq_band and set_eq_bands store and push for a band is the value the
\* generator writes for that band.
C27_EqGainSameLiveAndBaked ==
    (/\ Generated
     /\ HasNode(graph, "eq")
     /\ Len(cfg.eq_bands) = 10
     /\ \A i \in 1..10 : cfg.eq_bands[i] >= EQ_BAND_MIN /\ cfg.eq_bands[i] <= EQ_BAND_MAX)
    => \A i \in 1..10 :
          StoredBand(cfg.eq_bands[i])
             = ControlOf(graph, "eq")[EQ_BAND_TO_MBEQ_INDEX[i] + 1]

\* ------------------------------------------------ stereo modes and outputs
StereoModes == {DUAL_MONO, RADIO, VOICE_CHANGER}

\* C28 as claimed: in every stereo mode the graph has exactly two outputs and
\* the FL FR layout, whatever stages are enabled, none included.
C28_StereoAlwaysTwoOutputs ==
    (Generated /\ cfg.stereo_mode \in StereoModes)
    => /\ Len(graph.outputs) = 2
       /\ graph.position = <<"FL", "FR">>

\* C28 as amended: in every stereo mode the graph has exactly two outputs and
\* the FL FR layout when at least one stage is enabled; with no stage enabled
\* it is the pass-through graph, with one output, one channel and no layout.
C28_StereoTwoOutputsUnlessPassthrough ==
    (Generated /\ cfg.stereo_mode \in StereoModes)
    => IF EnabledStages(cfg) # <<>>
       THEN /\ Len(graph.outputs) = 2
            /\ graph.outputs[1] # graph.outputs[2]
            /\ graph.position = <<"FL", "FR">>
            /\ graph.channels = 0
       ELSE /\ graph.outputs = <<Port("passthrough", "Out")>>
            /\ graph.position = <<>>
            /\ graph.channels = 1

\* A Voice Changer configuration with every stage disabled has been compiled
\* to the one-output pass-through graph.
C28_Witness ==
    /\ Generated
    /\ cfg.stereo_mode = VOICE_CHANGER
    /\ EnabledStages(cfg) = <<>>
    /\ Len(graph.outputs) = 1
    /\ graph.channels = 1

\* ------------------------------------------- the two paths, same topology
\* What the mode selects in a graph: how many graph outputs it has and the
\* channel count it declares (0: none declared, as in the stereo templates).
Topology(g) == [outputs |-> Len(g.outputs), channels |-> g.channels]

\* C29: for the same saved settings the service's _generate_config and the
\* command line's generate_config select the same topology, and with stereo
\* enhancement disabled both give one graph output and channel count 1,
\* whatever mode is stored.
C29_BothPathsSameTopology ==
    Generated
    => /\ Topology(graph) = Topology(Generate(ConfigFromSettings(disk)))
       /\ Topology(graph) = Topology(Generate(CliConfigFromSettings(disk)))
       /\ ~disk.stereo_enabled => Len(graph.outputs) = 1 /\ graph.channels = 1

\* ------------------------------------------------------ add() and the lock
\* C30: add() always returns, also when the queue is idle and add() itself
\* starts the processing, and every task added gets executed: no call of
\* add() ever waits for the queue's lock while holding that lock itself (a
\* call that does can never return, and no task is taken from the queue while
\* the lock stays held).
C30_AddNeverWaitsForItsOwnLock ==
    \A c \in Callers :
        ~(task_queue.pc[c] = "waiting" /\ task_queue.lock = c)

====
